---- MODULE Spec2Model ----
(***************************************************************************)
(* Verification model of the DarkStackBackend job-orchestration core:      *)
(*   - the three-method authentication of BaseProcessor.handleAuthentication*)
(*     with AtpClient and the account store (SpecAuth);                     *)
(*   - the worker pools of queueService.createWorker and the capture of    *)
(*     console output into job logs (SpecWorker);                           *)
(*   - the Socket.IO fan-out of socketService with its state and log       *)
(*     caches (SpecSocket).                                                 *)
(***************************************************************************)
EXTENDS Integers, Sequences, FiniteSets, TLC

(***************************************************************************)
(* Bounds of the model.                                                    *)
(***************************************************************************)
\* number of token pairs the upstream issues beyond the initial one
MaxIssued == 2
\* largest per-job `attempts` option given at enqueue time
MaxAttemptsOpt == 2
\* number of posts of a massPost batch
MaxItems == 1
\* number of Worker objects constructed in one run
MaxWorkers == 2
\* entries kept in one job's job.data.logs in one run
MaxLogLen == 4
\* progress reports, log lines and stalls the jobs produce in one run
MaxTelemetry == 1
\* largest numberOfActions given to a strategy
MaxActions == 15
\* largest number of planned actions, or of posts, a processor is given
MaxPlanned == 3
\* log lines one running job writes
MaxWrites == 102

(***************************************************************************)
(* Authentication: state.                                                  *)
(***************************************************************************)
VARIABLES
  aPc,            \* position of each job inside process()/handleAuthentication
  aCtx,           \* "initial": coordination at job start, "item": re-authentication before a post
  aJobState,      \* queue backend state of the job
  attemptsMade,   \* attempts started by the queue backend
  attemptsOpt,    \* the job's `attempts` option
  itemsLeft,      \* posts of the batch still to process
  sessionData,    \* job.data.sessionData (mutated in place)
  accountMetadata,\* job.data.accountMetadata
  sessionResumed, \* local of handleAuthentication
  resumeError,    \* local of handleAuthentication
  pendingTokens,  \* tokens returned by the client, awaiting updateAccountTokens
  thrown,         \* error thrown by handleAuthentication (kind, cause)
  accountStore,   \* row of accounts_imported for the account
  issued,         \* number of the token pair most recently returned by the upstream
  attempted,      \* history: methods called in the current coordination
  lastCause,      \* history: error of the last method that failed in the current coordination
  clientDids,     \* history: DIDs passed to the social client
  exhausted,      \* history: a coordination of this job has failed with every method
  authDone,       \* history: number of the pair returned to the job by its last successful method
  storeFailed     \* history: some call of updateAccountTokens has thrown

authVars == <<aPc, aCtx, aJobState, attemptsMade, attemptsOpt, itemsLeft, sessionData,
              accountMetadata, sessionResumed, resumeError, pendingTokens, thrown,
              accountStore, issued, attempted, lastCause, clientDids, exhausted, authDone,
              storeFailed>>

(***************************************************************************)
(* Worker pools and console capture: state.                                *)
(***************************************************************************)
VARIABLES
  queueMap,       \* queue keys that have a Queue
  workerMap,      \* queue key -> the Worker registered for it (0: none)
  workers,        \* every Worker ever constructed: its queue, state and concurrency
  wState,         \* queue backend state of each job
  wOwner,         \* the Worker that runs the job (0: none)
  wPc,            \* position of the job inside the Worker's callback
  wAttemptsMade,  \* attempts started for the job
  consoleFn,      \* the global console.log: the chain of capture closures, innermost first
  savedConsole,   \* originalConsoleLog of each running callback
  jobLogs,        \* job.data.logs of each job
  jobQueue        \* the queue key each job is added to

workerVars == <<queueMap, workerMap, workers, wState, wOwner, wPc, wAttemptsMade,
                consoleFn, savedConsole, jobLogs, jobQueue>>

(***************************************************************************)
(* Socket fan-out: state.                                                  *)
(***************************************************************************)
VARIABLES
  sockTenant,          \* socket.data.userId of each connected socket
  rooms,               \* the Socket.IO rooms each socket has joined
  clientSubscriptions, \* socketId -> {userId, activeJobs, activeGroups}
  jobStateCache,       \* jobId -> last projection of the job
  jobLogsCache,        \* jobId -> cached log entries
  emitted,             \* the socket.emit calls and replies made by the last handler
  sjState,             \* queue backend state of each job
  sjAttempts,          \* attempts started for each job
  sjBudget,            \* progress reports, log lines and stalls the jobs may still produce
  stream,              \* events of the QueueEvents stream not yet handled, each
                       \* with the attempt that produced it (history)
  seenEnd,             \* history: per socket and job, the last attempt whose
                       \* job:failed or job:completed the socket has been sent
  sjStalls,            \* times each job was found stalled and put back to wait
  startedEvents,       \* history: job:started events emitted for each job
  resent,              \* the socket.emit calls the last handler made for an event
                       \* it had already sent to that socket
  unmonitored          \* history, kept in the runs that start with it defined: per
                       \* socket and job 0; 1 once the socket has sent unmonitor-job
                       \* for a job it watched; 2 once a log line of the job has
                       \* been handled after that

socketVars == <<sockTenant, rooms, clientSubscriptions, jobStateCache, jobLogsCache,
                emitted, sjState, sjAttempts, sjBudget, stream, seenEnd, sjStalls,
                startedEvents, resent, unmonitored>>

(***************************************************************************)
(* Engagement strategies (the pacing plan): state.                         *)
(***************************************************************************)
VARIABLES
  strategyType,        \* 'random' or 'human-like'
  numberOfActions,     \* options.numberOfActions
  likePercentage,      \* options.likePercentage
  delayRange,          \* options.delayRange
  skipRange,           \* options.skipRange
  planPc,              \* position in simulate()
  likeCount,           \* simulate(): likeCount, as returned
  repostCount,         \* simulate(): repostCount, as returned
  actionsPerSession,   \* human-like: actions of each session
  remainingActions,    \* human-like: actions not yet given to a session
  sessionIdx,          \* human-like: index of the session being generated
  sessionLikes,        \* human-like: likes of the session being generated
  likeRemaining,       \* human-like: likes not yet given to a session
  loopI,               \* i of the loop that pushes the planned actions
  planCounts,          \* plannedActions so far: its length and its numbers of
                       \* like and repost actions
  lastPlanned,         \* the action pushed last onto plannedActions
  totalTime            \* simulate(): totalTime

planVars == <<strategyType, numberOfActions, likePercentage, delayRange, skipRange, planPc,
              likeCount, repostCount, actionsPerSession, remainingActions, sessionIdx,
              sessionLikes, likeRemaining, loopI, planCounts, lastPlanned, totalTime>>

\* The processors of engagement and mass post jobs (one attempt of one job),
\* and a direct call of EngagementService.executeEngagement.
VARIABLES
  jobKind,             \* "engagementBot", "massPost" or "executeEngagement"
  items,               \* per planned action (or post), in the order given: what happens
                       \* when it is performed: "ok", "throws", "malformed" (feed item
                       \* without post), "reauthThrows", "pinThrows"
  execPc,              \* where process() stands: "start", "setup", "loop", "broken",
                       \* "done", "failed"
  execI,               \* the loop index i
  results,             \* the results array: the success flag of every record
  processedActions,    \* the counter of reportActionProgress
  callbacks,           \* history: the indices progressCallback was invoked with
  progressReports,     \* history: the values given to job.updateProgress
  stopOnError,         \* executeEngagement: options.stopOnError
  reverseOrder,        \* mass post: options.reverseOrder
  pinFlags,            \* mass post: post.pin of every post, in the order given
  pinned,              \* mass post: the local `pinned`
  resultPinned,        \* the `pinned` field of every record of results
  sleeping,            \* the loop is inside `await sleep(...)`
  lastSleep,           \* mass post: seconds of the pause after the post handled last (0: none)
  skips,               \* engagement: action.skip of every planned action
  feedLength,          \* engagement: timelinePosts.length
  currentPostIndex,    \* engagement: the cursor into timelinePosts
  readIndex,           \* history: the index timelinePosts was read at last (-1: never)
  shuttingDown         \* the process has received a signal and gracefulShutdown runs

execVars == <<jobKind, items, execPc, execI, results, processedActions, callbacks,
              progressReports, stopOnError, reverseOrder, pinFlags, pinned, resultPinned,
              sleeping, lastSleep, skips, feedLength, currentPostIndex, readIndex,
              shuttingDown>>

\* Graceful shutdown of the process (app.ts, closeAllQueues).
VARIABLES
  sdPc,                \* per call of gracefulShutdown: where it stands
  sdIdx,               \* per call: the entry of workerMap its loop of closeAllQueues is at
  httpClosed,          \* httpServer.close has been called
  sdWorkers,           \* per Worker: "running", "closing" (close() called) or "closed"
  sdJobs,              \* per Worker: its in-flight job: "none", "active", or "hung"
                       \* (a job whose processor never returns)
  sdWorkerMap,         \* the Workers still in workerMap
  sdQueuesClosed,      \* the QueueEvents and Queues have been closed
  sdRedisClosed,       \* the shared Redis connection has been closed
  exitCode             \* process.exit: -1 while the process runs, else the code

shutVars == <<sdPc, sdIdx, httpClosed, sdWorkers, sdJobs, sdWorkerMap, sdQueuesClosed,
              sdRedisClosed, exitCode>>

\* The image of one post (MassPostProcessor.createPostWithImage).
VARIABLES
  imgPc,               \* "start", "resize", "upload", "posted" or "threw"
  imageSource,         \* "data" (a base64 data URI) or "url" (fetched)
  blobSize,            \* size in bytes of the blob in hand
  sharp,               \* the sharp module: "available", "missing" or "throws"
  uploaded             \* sizes of the blobs given to agent.uploadBlob

imageVars == <<imgPc, imageSource, blobSize, sharp, uploaded>>

\* The jobs of one queue as the queue backend holds them (getJobsByParentId).
VARIABLES
  qState,              \* per job: "none", "waiting", "delayed", "active", "completed",
                       \* "failed", or "removed" (no longer retained)
  qParent,             \* per job: job.data.parentId
  qAttemptsMade,       \* per job: attempts started
  listedFor,           \* the parentId of the call of getJobsByParentId that has
                       \* just returned, Undefined otherwise
  listed               \* the jobs that call returned

listVars == <<qState, qParent, qAttemptsMade, listedFor, listed>>

vars == <<authVars, workerVars, socketVars, planVars, execVars, shutVars, imageVars, listVars>>

nonAuthVars == <<workerVars, socketVars, planVars, execVars, shutVars, imageVars, listVars>>
nonWorkerVars == <<authVars, socketVars, planVars, execVars, shutVars, imageVars, listVars>>
nonSocketVars == <<authVars, workerVars, planVars, execVars, shutVars, imageVars, listVars>>
nonPlanVars == <<authVars, workerVars, socketVars, execVars, shutVars, imageVars, listVars>>
nonExecVars == <<authVars, workerVars, socketVars, planVars, shutVars, imageVars, listVars>>
nonShutVars == <<authVars, workerVars, socketVars, planVars, execVars, imageVars, listVars>>
nonListVars == <<authVars, workerVars, socketVars, planVars, execVars, shutVars, imageVars>>
nonImageVars == <<authVars, workerVars, socketVars, planVars, execVars, shutVars, listVars>>

\* job 1 is a massPost job; job 2 is an engagementBot job of the same account,
\* enqueued with attempts: 1 and a complete session
AJobs == {1, 2}
MassPostJob == 1
EngagementJob == 2

\* posts.length of the job's batch (an engagement job has no posts)
PostCount(j) == IF j = MassPostJob THEN MaxItems ELSE 0

\* the literal assigned when the DID is missing
KnownDid == "did:plc:afc44uvxzyjg5kssx2us7ed3"
\* the DID the upstream knows for the account
RealDid == "D"
NoDid == ""

\* token 0 is "not set"; token 1 is the pair the job was enqueued with
NoToken == 0
InitialToken == 1

NoError == "none"
Undefined == "undefined"
NoPending == [jwt |-> NoToken, refresh_jwt |-> NoToken, did |-> Undefined, email |-> Undefined]
NoThrow == [kind |-> "none", cause |-> NoError]

MetaChoices ==
  { [present |-> FALSE, accountId |-> 0, password |-> ""],
    [present |-> TRUE,  accountId |-> 1, password |-> ""],
    [present |-> TRUE,  accountId |-> 1, password |-> "P"],
    [present |-> TRUE,  accountId |-> 0, password |-> "P"] }

SessionChoices ==
  { [did |-> d, accessJwt |-> InitialToken, refreshJwt |-> r, email |-> ""] :
      d \in {NoDid, RealDid}, r \in {NoToken, InitialToken} }

InitAuth ==
  /\ aPc = [j \in AJobs |-> "idle"]
  /\ aCtx = [j \in AJobs |-> "initial"]
  /\ aJobState = [j \in AJobs |-> "waiting"]
  /\ attemptsMade = [j \in AJobs |-> 0]
  /\ attemptsOpt \in [AJobs -> 1..MaxAttemptsOpt]
  /\ attemptsOpt[EngagementJob] = 1
  /\ itemsLeft = [j \in AJobs |-> PostCount(j)]
  /\ sessionData \in [AJobs -> SessionChoices]
  /\ sessionData[EngagementJob].did = RealDid
  /\ sessionData[EngagementJob].refreshJwt = InitialToken
  /\ accountMetadata \in [AJobs -> MetaChoices]
  /\ accountMetadata[EngagementJob].accountId = 1
  /\ sessionResumed = [j \in AJobs |-> FALSE]
  /\ resumeError = [j \in AJobs |-> NoError]
  /\ pendingTokens = [j \in AJobs |-> NoPending]
  /\ thrown = [j \in AJobs |-> NoThrow]
  /\ accountStore = [jwt |-> InitialToken, refresh_jwt |-> InitialToken, did |-> RealDid, email |-> ""]
  /\ issued = InitialToken
  /\ attempted = [j \in AJobs |-> <<>>]
  /\ lastCause = [j \in AJobs |-> NoError]
  /\ clientDids = {}
  /\ exhausted = [j \in AJobs |-> FALSE]
  /\ authDone = [j \in AJobs |-> NoToken]
  /\ storeFailed = FALSE

\* the authentication part at rest: no job is ever claimed
AuthParked ==
  /\ aPc = [j \in AJobs |-> "done"]
  /\ aCtx = [j \in AJobs |-> "initial"]
  /\ aJobState = [j \in AJobs |-> "completed"]
  /\ attemptsMade = [j \in AJobs |-> 0]
  /\ attemptsOpt = [j \in AJobs |-> 1]
  /\ itemsLeft = [j \in AJobs |-> 0]
  /\ sessionData = [j \in AJobs |->
        [did |-> RealDid, accessJwt |-> InitialToken, refreshJwt |-> InitialToken, email |-> ""]]
  /\ accountMetadata = [j \in AJobs |-> [present |-> FALSE, accountId |-> 0, password |-> ""]]
  /\ sessionResumed = [j \in AJobs |-> FALSE]
  /\ resumeError = [j \in AJobs |-> NoError]
  /\ pendingTokens = [j \in AJobs |-> NoPending]
  /\ thrown = [j \in AJobs |-> NoThrow]
  /\ accountStore = [jwt |-> InitialToken, refresh_jwt |-> InitialToken, did |-> RealDid, email |-> ""]
  /\ issued = InitialToken
  /\ attempted = [j \in AJobs |-> <<>>]
  /\ lastCause = [j \in AJobs |-> NoError]
  /\ clientDids = {}
  /\ exhausted = [j \in AJobs |-> FALSE]
  /\ authDone = [j \in AJobs |-> NoToken]
  /\ storeFailed = FALSE

(***************************************************************************)
(* Authentication: the external collaborators.                             *)
(***************************************************************************)
\* BskyAgent.resumeSession as called by AtpClient.refreshSession: it either
\* leaves a session with rotated tokens on the agent (its did may be null)
\* or throws.
RefreshOutcomes ==
  { [ok |-> TRUE, did |-> d, cause |-> NoError] : d \in {RealDid, NoDid} }
    \cup { [ok |-> FALSE, did |-> NoDid, cause |-> "refreshErr"] }

\* BskyAgent.resumeSession as called by AtpClient.resumeSession.
ResumeOutcomes ==
  { [ok |-> TRUE, did |-> d, cause |-> NoError] : d \in {RealDid, NoDid} }
    \cup { [ok |-> FALSE, did |-> NoDid, cause |-> "resumeErr"] }

\* BskyAgent.login: a session, a session without did, or an error.
LoginOutcomes ==
  { [ok |-> TRUE, did |-> RealDid, cause |-> NoError],
    [ok |-> FALSE, did |-> NoDid, cause |-> "Login successful but no DID received from server"],
    [ok |-> FALSE, did |-> NoDid, cause |-> "loginErr"] }

CanIssue == issued < InitialToken + MaxIssued

(***************************************************************************)
(* Authentication: helpers of handleAuthentication and AtpClient.          *)
(***************************************************************************)
\* if (!sessionData.did) sessionData.did = 'did:plc:...'
AssignKnownDid(s) == IF s.did = NoDid THEN [s EXCEPT !.did = KnownDid] ELSE s

\* if (sessionData.refreshJwt)
HasRefreshToken(j) == sessionData[j].refreshJwt # NoToken

\* a variant of NeedMethod2 in which method 2 runs whatever method 1 did
NeedMethod2_Always(j) == TRUE

\* if (!sessionResumed)
NeedMethod2(j) == ~sessionResumed[j]

\* if (!sessionResumed && accountMetadata && accountMetadata.password)
NeedMethod3(j) ==
  /\ ~sessionResumed[j]
  /\ accountMetadata[j].present
  /\ accountMetadata[j].password # ""

\* if (accountMetadata && accountMetadata.accountId)
HasAccountId(j) == accountMetadata[j].present /\ accountMetadata[j].accountId # 0

\* did: this.agent.session.did || session.did
KeepDid(agentDid, sessionDid) == IF agentDid # NoDid THEN agentDid ELSE sessionDid

\* updateAccountTokens: jwt and refresh_jwt always, did and email when given
UpdateAccountTokens(row, p) ==
  [jwt |-> p.jwt,
   refresh_jwt |-> p.refresh_jwt,
   did |-> IF p.did # Undefined THEN p.did ELSE row.did,
   email |-> IF p.email # Undefined THEN p.email ELSE row.email]

\* resumeError instanceof Error ? resumeError.message : (resumeError ? String(resumeError) : 'Error desconocido')
ResumeErrorMessage(e) == IF e # NoError THEN e ELSE "Error desconocido"

\* the job is retried while attemptsMade < opts.attempts
HasAttemptsLeft(j) == attemptsMade[j] < attemptsOpt[j]

(***************************************************************************)
(* Authentication: actions.                                                *)
(***************************************************************************)
\* The worker claims the job and process() starts a coordination.
ClaimJob(j) ==
  /\ aJobState[j] = "waiting"
  /\ aPc[j] = "idle"
  /\ aJobState' = [aJobState EXCEPT ![j] = "active"]
  /\ attemptsMade' = [attemptsMade EXCEPT ![j] = @ + 1]
  /\ aPc' = [aPc EXCEPT ![j] = "m1"]
  /\ aCtx' = [aCtx EXCEPT ![j] = "initial"]
  /\ itemsLeft' = [itemsLeft EXCEPT ![j] = PostCount(j)]
  /\ sessionResumed' = [sessionResumed EXCEPT ![j] = FALSE]
  /\ resumeError' = [resumeError EXCEPT ![j] = NoError]
  /\ attempted' = [attempted EXCEPT ![j] = <<>>]
  /\ lastCause' = [lastCause EXCEPT ![j] = NoError]
  /\ thrown' = [thrown EXCEPT ![j] = NoThrow]
  /\ UNCHANGED <<nonAuthVars, storeFailed, attemptsOpt, sessionData, accountMetadata, pendingTokens, accountStore,
                 issued, clientDids, exhausted, authDone>>

\* Method 1 up to the call of updateAccountTokens.
Method1(j) ==
  /\ aPc[j] = "m1"
  /\ LET s1 == AssignKnownDid(sessionData[j]) IN
     \/ /\ HasRefreshToken(j)
        /\ CanIssue
        /\ \E out \in {o \in RefreshOutcomes : o.ok} :
             LET n == issued + 1
                 refreshed == [did |-> KeepDid(out.did, s1.did), accessJwt |-> n, refreshJwt |-> n]
             IN
             /\ issued' = n
             /\ sessionData' = [sessionData EXCEPT ![j] =
                   [s1 EXCEPT !.accessJwt = refreshed.accessJwt,
                              !.refreshJwt = refreshed.refreshJwt,
                              !.did = refreshed.did]]
             /\ sessionResumed' = [sessionResumed EXCEPT ![j] = TRUE]
             /\ authDone' = [authDone EXCEPT ![j] = n]
             /\ attempted' = [attempted EXCEPT ![j] =
                   Append(@, [m |-> "refresh", ok |-> TRUE, pre |-> s1.refreshJwt # NoToken])]
             /\ clientDids' = clientDids \cup {s1.did}
             /\ IF HasAccountId(j)
                  THEN /\ pendingTokens' = [pendingTokens EXCEPT ![j] =
                             [jwt |-> refreshed.accessJwt, refresh_jwt |-> refreshed.refreshJwt,
                              did |-> refreshed.did, email |-> Undefined]]
                       /\ aPc' = [aPc EXCEPT ![j] = "m1_store"]
                  ELSE /\ pendingTokens' = pendingTokens
                       /\ aPc' = [aPc EXCEPT ![j] = "m2"]
             /\ UNCHANGED lastCause
     \/ /\ HasRefreshToken(j)
        /\ \E out \in {o \in RefreshOutcomes : ~o.ok} :
             \* refreshSession catches the error and returns null
             /\ sessionData' = [sessionData EXCEPT ![j] = s1]
             /\ attempted' = [attempted EXCEPT ![j] =
                   Append(@, [m |-> "refresh", ok |-> FALSE, pre |-> s1.refreshJwt # NoToken])]
             /\ lastCause' = [lastCause EXCEPT ![j] = out.cause]
             /\ clientDids' = clientDids \cup {s1.did}
             /\ aPc' = [aPc EXCEPT ![j] = "m2"]
             /\ UNCHANGED <<issued, sessionResumed, authDone, pendingTokens>>
     \/ /\ ~HasRefreshToken(j)
        /\ sessionData' = [sessionData EXCEPT ![j] = s1]
        /\ aPc' = [aPc EXCEPT ![j] = "m2"]
        /\ UNCHANGED <<issued, sessionResumed, authDone, pendingTokens, attempted,
                       lastCause, clientDids>>
  /\ UNCHANGED <<nonAuthVars, storeFailed, aCtx, aJobState, attemptsMade, attemptsOpt, itemsLeft, accountMetadata,
                 resumeError, thrown, accountStore, exhausted>>

\* updateAccountTokens of method 1 takes effect, or throws into the catch of method 1.
Method1Store(j) ==
  /\ aPc[j] = "m1_store"
  /\ \/ /\ accountStore' = UpdateAccountTokens(accountStore, pendingTokens[j])
        /\ UNCHANGED <<resumeError, storeFailed>>
     \/ /\ resumeError' = [resumeError EXCEPT ![j] = "storeErr"]
        /\ storeFailed' = TRUE
        /\ UNCHANGED accountStore
  /\ pendingTokens' = [pendingTokens EXCEPT ![j] = NoPending]
  /\ aPc' = [aPc EXCEPT ![j] = "m2"]
  /\ UNCHANGED <<nonAuthVars, aCtx, aJobState, attemptsMade, attemptsOpt, itemsLeft, sessionData,
                 accountMetadata, sessionResumed, thrown, issued, attempted, lastCause,
                 clientDids, exhausted, authDone>>

\* Method 2: atpClient.resumeSession, which returns a boolean and never throws.
Method2(j) ==
  /\ aPc[j] = "m2"
  /\ \/ /\ NeedMethod2(j)
        /\ \E out \in ResumeOutcomes :
             LET s1 == AssignKnownDid(sessionData[j]) IN
             /\ clientDids' = clientDids \cup {s1.did}
             /\ attempted' = [attempted EXCEPT ![j] =
                   Append(@, [m |-> "resume", ok |-> out.ok, pre |-> TRUE])]
             /\ sessionResumed' = [sessionResumed EXCEPT ![j] = out.ok]
             /\ sessionData' = [sessionData EXCEPT ![j] =
                   IF out.ok THEN [s1 EXCEPT !.did = KeepDid(out.did, s1.did)] ELSE s1]
             /\ lastCause' = [lastCause EXCEPT ![j] = IF out.ok THEN @ ELSE out.cause]
     \/ /\ ~NeedMethod2(j)
        /\ UNCHANGED <<clientDids, attempted, sessionResumed, sessionData, lastCause>>
  /\ aPc' = [aPc EXCEPT ![j] = "m3"]
  /\ UNCHANGED <<nonAuthVars, storeFailed, aCtx, aJobState, attemptsMade, attemptsOpt, itemsLeft, accountMetadata,
                 resumeError, pendingTokens, thrown, accountStore, issued, exhausted, authDone>>

\* Method 3 up to the call of updateAccountTokens.
Method3(j) ==
  /\ aPc[j] = "m3"
  /\ \/ /\ NeedMethod3(j)
        /\ CanIssue
        /\ \E out \in {o \in LoginOutcomes : o.ok} :
             LET n == issued + 1 IN
             /\ issued' = n
             /\ sessionData' = [sessionData EXCEPT ![j] =
                   [@ EXCEPT !.accessJwt = n, !.refreshJwt = n, !.did = out.did]]
             /\ authDone' = [authDone EXCEPT ![j] = n]
             /\ attempted' = [attempted EXCEPT ![j] =
                   Append(@, [m |-> "login", ok |-> TRUE,
                              pre |-> accountMetadata[j].present /\ accountMetadata[j].password # ""])]
             /\ IF accountMetadata[j].accountId # 0
                  THEN /\ pendingTokens' = [pendingTokens EXCEPT ![j] =
                             [jwt |-> n, refresh_jwt |-> n, did |-> out.did, email |-> "e@x"]]
                       /\ aPc' = [aPc EXCEPT ![j] = "m3_store"]
                       /\ UNCHANGED sessionResumed
                  ELSE /\ sessionResumed' = [sessionResumed EXCEPT ![j] = TRUE]
                       /\ aPc' = [aPc EXCEPT ![j] = "ret"]
                       /\ UNCHANGED pendingTokens
             /\ UNCHANGED <<thrown, lastCause, exhausted>>
     \/ /\ NeedMethod3(j)
        /\ \E out \in {o \in LoginOutcomes : ~o.ok} :
             /\ attempted' = [attempted EXCEPT ![j] =
                   Append(@, [m |-> "login", ok |-> FALSE,
                              pre |-> accountMetadata[j].present /\ accountMetadata[j].password # ""])]
             /\ lastCause' = [lastCause EXCEPT ![j] = out.cause]
             /\ thrown' = [thrown EXCEPT ![j] = [kind |-> "allFailed", cause |-> out.cause]]
             /\ exhausted' = [exhausted EXCEPT ![j] = TRUE]
             /\ aPc' = [aPc EXCEPT ![j] = "threw"]
             /\ UNCHANGED <<issued, sessionData, authDone, pendingTokens, sessionResumed>>
     \/ /\ ~NeedMethod3(j)
        /\ aPc' = [aPc EXCEPT ![j] = "ret"]
        /\ UNCHANGED <<issued, sessionData, authDone, attempted, pendingTokens, sessionResumed,
                       thrown, lastCause, exhausted>>
  /\ UNCHANGED <<nonAuthVars, storeFailed, aCtx, aJobState, attemptsMade, attemptsOpt, itemsLeft, accountMetadata,
                 resumeError, accountStore, clientDids>>

\* updateAccountTokens of method 3 takes effect, or throws into the catch of method 3.
Method3Store(j) ==
  /\ aPc[j] = "m3_store"
  /\ \/ /\ accountStore' = UpdateAccountTokens(accountStore, pendingTokens[j])
        /\ sessionResumed' = [sessionResumed EXCEPT ![j] = TRUE]
        /\ aPc' = [aPc EXCEPT ![j] = "ret"]
        /\ UNCHANGED <<thrown, lastCause, exhausted, storeFailed>>
     \/ /\ thrown' = [thrown EXCEPT ![j] = [kind |-> "allFailed", cause |-> "storeErr"]]
        /\ storeFailed' = TRUE
        /\ lastCause' = [lastCause EXCEPT ![j] = "storeErr"]
        /\ exhausted' = [exhausted EXCEPT ![j] = TRUE]
        /\ aPc' = [aPc EXCEPT ![j] = "threw"]
        /\ UNCHANGED <<accountStore, sessionResumed>>
  /\ pendingTokens' = [pendingTokens EXCEPT ![j] = NoPending]
  /\ UNCHANGED <<nonAuthVars, aCtx, aJobState, attemptsMade, attemptsOpt, itemsLeft, sessionData,
                 accountMetadata, resumeError, issued, attempted, clientDids, authDone>>

\* The final check of handleAuthentication.
AuthReturn(j) ==
  /\ aPc[j] = "ret"
  /\ \/ /\ ~sessionResumed[j]
        /\ thrown' = [thrown EXCEPT ![j] =
              [kind |-> "noResume", cause |-> ResumeErrorMessage(resumeError[j])]]
        /\ exhausted' = [exhausted EXCEPT ![j] = TRUE]
        /\ aPc' = [aPc EXCEPT ![j] = "threw"]
     \/ /\ sessionResumed[j]
        /\ aPc' = [aPc EXCEPT ![j] = "exec"]
        /\ UNCHANGED <<thrown, exhausted>>
  /\ UNCHANGED <<nonAuthVars, storeFailed, aCtx, aJobState, attemptsMade, attemptsOpt, itemsLeft, sessionData,
                 accountMetadata, sessionResumed, resumeError, pendingTokens, accountStore,
                 issued, attempted, lastCause, clientDids, authDone>>

\* The error of handleAuthentication reaches its caller: process() rethrows the
\* error of the coordination at job start; the catch around one post records an
\* item failure and the loop goes on.
AuthThrew(j) ==
  /\ aPc[j] = "threw"
  /\ \/ /\ aCtx[j] = "initial"
        /\ aPc' = [aPc EXCEPT ![j] = "jobfail"]
        /\ UNCHANGED itemsLeft
     \/ /\ aCtx[j] = "item"
        /\ itemsLeft' = [itemsLeft EXCEPT ![j] = @ - 1]
        /\ aPc' = [aPc EXCEPT ![j] = "exec"]
  /\ UNCHANGED <<nonAuthVars, storeFailed, aCtx, aJobState, attemptsMade, attemptsOpt, sessionData, accountMetadata,
                 sessionResumed, resumeError, pendingTokens, thrown, accountStore, issued,
                 attempted, lastCause, clientDids, exhausted, authDone>>

\* One post of the batch: the session is active and the post is made (or fails
\* into the catch around the post), or the session has lapsed and
\* handleAuthentication is called again.
ItemStep(j) ==
  /\ aPc[j] = "exec"
  /\ itemsLeft[j] > 0
  /\ \/ /\ itemsLeft' = [itemsLeft EXCEPT ![j] = @ - 1]
        /\ UNCHANGED <<aPc, aCtx, sessionResumed, resumeError, attempted, lastCause, thrown>>
     \/ /\ aCtx' = [aCtx EXCEPT ![j] = "item"]
        /\ aPc' = [aPc EXCEPT ![j] = "m1"]
        /\ sessionResumed' = [sessionResumed EXCEPT ![j] = FALSE]
        /\ resumeError' = [resumeError EXCEPT ![j] = NoError]
        /\ attempted' = [attempted EXCEPT ![j] = <<>>]
        /\ lastCause' = [lastCause EXCEPT ![j] = NoError]
        /\ thrown' = [thrown EXCEPT ![j] = NoThrow]
        /\ UNCHANGED itemsLeft
  /\ UNCHANGED <<nonAuthVars, storeFailed, aJobState, attemptsMade, attemptsOpt, sessionData, accountMetadata,
                 pendingTokens, accountStore, issued, clientDids, exhausted, authDone>>

\* The processor returns its result, or throws an error of the upstream.
ExecutorEnd(j) ==
  /\ aPc[j] = "exec"
  /\ itemsLeft[j] = 0
  /\ \/ /\ aPc' = [aPc EXCEPT ![j] = "done"]
        /\ aJobState' = [aJobState EXCEPT ![j] = "completed"]
     \/ /\ aPc' = [aPc EXCEPT ![j] = "jobfail"]
        /\ UNCHANGED aJobState
  /\ UNCHANGED <<nonAuthVars, storeFailed, aCtx, attemptsMade, attemptsOpt, itemsLeft, sessionData, accountMetadata,
                 sessionResumed, resumeError, pendingTokens, thrown, accountStore, issued,
                 attempted, lastCause, clientDids, exhausted, authDone>>

\* The worker rethrows; the queue backend retries the job while attempts are left.
JobFail(j) ==
  /\ aPc[j] = "jobfail"
  /\ \/ /\ HasAttemptsLeft(j)
        /\ aJobState' = [aJobState EXCEPT ![j] = "waiting"]
        /\ aPc' = [aPc EXCEPT ![j] = "idle"]
     \/ /\ ~HasAttemptsLeft(j)
        /\ aJobState' = [aJobState EXCEPT ![j] = "failed"]
        /\ aPc' = [aPc EXCEPT ![j] = "done"]
  /\ UNCHANGED <<nonAuthVars, storeFailed, aCtx, attemptsMade, attemptsOpt, itemsLeft, sessionData, accountMetadata,
                 sessionResumed, resumeError, pendingTokens, thrown, accountStore, issued,
                 attempted, lastCause, clientDids, exhausted, authDone>>

NextAuth ==
  \E j \in AJobs :
    \/ ClaimJob(j)
    \/ Method1(j)
    \/ Method1Store(j)
    \/ Method2(j)
    \/ Method3(j)
    \/ Method3Store(j)
    \/ AuthReturn(j)
    \/ AuthThrew(j)
    \/ ItemStep(j)
    \/ ExecutorEnd(j)
    \/ JobFail(j)

(***************************************************************************)
(* Worker pools and console capture (queueService.ts).                     *)
(***************************************************************************)
WJobs == {1, 2}
\* queue keys `${jobType}:${userId}` of one tenant
Queues == {"basicBot:T", "engagementBot:T", "massPostBot:T"}

\* processorMap has an entry for the job type of the queue
HasProcessor(q) == q \in {"basicBot:T", "engagementBot:T"}

\* concurrency of a Worker made by getQueue / addJob
DefaultConcurrency == 3
\* concurrency of a Worker made by init-workers
InitWorkersConcurrency == 5

NoWorker == 0
UnusedWorker == [queue |-> "", state |-> "unused", concurrency |-> 0]

\* the queue each job is added to
JobQueue(j) == jobQueue[j]

InitWorker ==
  /\ jobQueue \in [WJobs -> Queues]
  /\ jobQueue[1] = "basicBot:T"
  /\ queueMap = {}
  /\ workerMap = [q \in Queues |-> NoWorker]
  /\ workers = [w \in 1..MaxWorkers |-> UnusedWorker]
  /\ wState = [j \in WJobs |-> "none"]
  /\ wOwner = [j \in WJobs |-> NoWorker]
  /\ wPc = [j \in WJobs |-> "idle"]
  /\ wAttemptsMade = [j \in WJobs |-> 0]
  /\ consoleFn = <<>>
  /\ savedConsole = [j \in WJobs |-> <<>>]
  /\ jobLogs = [j \in WJobs |-> <<>>]

\* the worker part at rest: no job is ever added
WorkerParked ==
  /\ jobQueue = [j \in WJobs |-> "basicBot:T"]
  /\ queueMap = {}
  /\ workerMap = [q \in Queues |-> NoWorker]
  /\ workers = [w \in 1..MaxWorkers |-> UnusedWorker]
  /\ wState = [j \in WJobs |-> "completed"]
  /\ wOwner = [j \in WJobs |-> NoWorker]
  /\ wPc = [j \in WJobs |-> "idle"]
  /\ wAttemptsMade = [j \in WJobs |-> 0]
  /\ consoleFn = <<>>
  /\ savedConsole = [j \in WJobs |-> <<>>]
  /\ jobLogs = [j \in WJobs |-> <<>>]

WorkersBuilt == Cardinality({w \in 1..MaxWorkers : workers[w].state # "unused"})

\* jobs a Worker is running
ActiveJobsOf(w) == {j \in WJobs : wOwner[j] = w /\ wState[j] = "active"}

\* createWorker: close() of the registered Worker is called and not awaited,
\* the new Worker runs at once (autorun) and replaces it in workerMap.
\* Result: the new <<workers, workerMap>>.
CreateWorker(ws, wm, q, c) ==
  LET old == wm[q]
      new == Cardinality({w \in 1..MaxWorkers : ws[w].state # "unused"}) + 1
      closed == IF old # NoWorker /\ ws[old].state = "running"
                  THEN [ws EXCEPT ![old].state = "closing"]
                  ELSE ws
  IN IF ~HasProcessor(q)
       THEN <<ws, wm>>
       ELSE <<[closed EXCEPT ![new] = [queue |-> q, state |-> "running", concurrency |-> c]],
              [wm EXCEPT ![q] = new]>>

\* getQueue: the Queue is made on first use, with a Worker when none is registered
GetQueue(ws, wm, qm, q) ==
  IF q \in qm THEN <<ws, wm, qm>>
  ELSE IF wm[q] = NoWorker
         THEN LET r == CreateWorker(ws, wm, q, DefaultConcurrency) IN <<r[1], r[2], qm \cup {q}>>
         ELSE <<ws, wm, qm \cup {q}>>

\* a log entry of addJobLog; `writer` is the job whose code produced the message
LogEntry(writer, kind) == [writer |-> writer, kind |-> kind]

\* addJobLog(job, level, message): logs.push(logEntry)
AddJobLog(logs, j, entry) == [logs EXCEPT ![j] = Append(@, entry)]

RECURSIVE CallConsole(_, _, _)
\* console.log(message) when console.log is the chain `fn`: the closure of a
\* job calls the function it replaced and then addJobLog(job, ...)
CallConsole(fn, logs, entry) ==
  IF fn = <<>> THEN logs
  ELSE LET inner == CallConsole(SubSeq(fn, 1, Len(fn) - 1), logs, entry)
       IN AddJobLog(inner, fn[Len(fn)], entry)

\* addJob: getQueue, q.add, and a Worker if none is registered
AddJob(j) ==
  /\ wState[j] = "none"
  /\ LET q == JobQueue(j) IN
     /\ (HasProcessor(q) /\ workerMap[q] = NoWorker) => WorkersBuilt < MaxWorkers
     /\ LET g == GetQueue(workers, workerMap, queueMap, q)
            r == IF g[2][q] = NoWorker
                   THEN CreateWorker(g[1], g[2], q, DefaultConcurrency)
                   ELSE <<g[1], g[2]>>
        IN /\ workers' = r[1]
           /\ workerMap' = r[2]
           /\ queueMap' = g[3]
     /\ wState' = IF q \notin queueMap /\ ~HasProcessor(q)
                    THEN wState
                    ELSE [wState EXCEPT ![j] = "waiting"]
  /\ UNCHANGED <<wOwner, wPc, wAttemptsMade, consoleFn, savedConsole, jobLogs>>
  /\ UNCHANGED <<jobQueue, nonWorkerVars>>

\* init-workers: createWorker for a bot type of the user
InitWorkers(q) ==
  /\ HasProcessor(q) => WorkersBuilt < MaxWorkers
  /\ LET r == CreateWorker(workers, workerMap, q, InitWorkersConcurrency) IN
     /\ workers' = r[1]
     /\ workerMap' = r[2]
  /\ UNCHANGED <<queueMap, wState, wOwner, wPc, wAttemptsMade, consoleFn, savedConsole, jobLogs>>
  /\ UNCHANGED <<jobQueue, nonWorkerVars>>

\* a running Worker takes a waiting job of its queue
WorkerClaim(w, j) ==
  /\ workers[w].state = "running"
  /\ workers[w].queue = JobQueue(j)
  /\ wState[j] = "waiting"
  /\ Cardinality(ActiveJobsOf(w)) < workers[w].concurrency
  /\ wState' = [wState EXCEPT ![j] = "active"]
  /\ wOwner' = [wOwner EXCEPT ![j] = w]
  /\ wPc' = [wPc EXCEPT ![j] = "claimed"]
  /\ wAttemptsMade' = [wAttemptsMade EXCEPT ![j] = @ + 1]
  /\ UNCHANGED <<queueMap, workerMap, workers, consoleFn, savedConsole, jobLogs>>
  /\ UNCHANGED <<jobQueue, nonWorkerVars>>

\* the callback up to the call of the processor: the start log, job:started,
\* and console.log replaced by the closure of this job
JobStart(j) ==
  /\ wPc[j] = "claimed"
  /\ jobLogs' = AddJobLog(jobLogs, j, LogEntry(j, "start"))
  /\ savedConsole' = [savedConsole EXCEPT ![j] = consoleFn]
  /\ consoleFn' = Append(consoleFn, j)
  /\ wPc' = [wPc EXCEPT ![j] = "running"]
  /\ UNCHANGED <<queueMap, workerMap, workers, wState, wOwner, wAttemptsMade>>
  /\ UNCHANGED <<jobQueue, nonWorkerVars>>

\* the processor of job j writes to the console (logger.* ends in console.log)
ConsoleWrite(j) ==
  /\ wPc[j] = "running"
  /\ \A k \in WJobs : Len(jobLogs[k]) < MaxLogLen
  /\ jobLogs' = CallConsole(consoleFn, jobLogs, LogEntry(j, "console"))
  /\ UNCHANGED <<queueMap, workerMap, workers, wState, wOwner, wPc, wAttemptsMade,
                 consoleFn, savedConsole>>
  /\ UNCHANGED <<jobQueue, nonWorkerVars>>

\* the processor returns (the completion log is added while the console is still
\* replaced) or throws (finally restores the console, catch adds the failure log)
ProcessorEnd(j) ==
  /\ wPc[j] = "running"
  /\ \/ /\ jobLogs' = AddJobLog(jobLogs, j, LogEntry(j, "completed"))
        /\ wPc' = [wPc EXCEPT ![j] = "completing"]
        /\ UNCHANGED consoleFn
        /\ UNCHANGED savedConsole
     \/ /\ consoleFn' = savedConsole[j]
        /\ savedConsole' = [savedConsole EXCEPT ![j] = <<>>]
        /\ jobLogs' = AddJobLog(jobLogs, j, LogEntry(j, "failed"))
        /\ wPc' = [wPc EXCEPT ![j] = "failing"]
  /\ UNCHANGED <<queueMap, workerMap, workers, wState, wOwner, wAttemptsMade>>
  /\ UNCHANGED <<jobQueue, nonWorkerVars>>

\* finally restores the console and the callback returns: the job is completed
JobComplete(j) ==
  /\ wPc[j] = "completing"
  /\ consoleFn' = savedConsole[j]
  /\ savedConsole' = [savedConsole EXCEPT ![j] = <<>>]
  /\ wState' = [wState EXCEPT ![j] = "completed"]
  /\ wOwner' = [wOwner EXCEPT ![j] = NoWorker]
  /\ wPc' = [wPc EXCEPT ![j] = "idle"]
  /\ UNCHANGED <<queueMap, workerMap, workers, wAttemptsMade, jobLogs>>
  /\ UNCHANGED <<jobQueue, nonWorkerVars>>

\* catch emits job:error and rethrows: the queue retries the job or fails it
JobRethrow(j) ==
  /\ wPc[j] = "failing"
  /\ \/ /\ wAttemptsMade[j] < MaxAttemptsOpt
        /\ wState' = [wState EXCEPT ![j] = "waiting"]
     \/ /\ wAttemptsMade[j] >= MaxAttemptsOpt
        /\ wState' = [wState EXCEPT ![j] = "failed"]
  /\ wOwner' = [wOwner EXCEPT ![j] = NoWorker]
  /\ wPc' = [wPc EXCEPT ![j] = "idle"]
  /\ UNCHANGED <<queueMap, workerMap, workers, wAttemptsMade, consoleFn,
                 savedConsole, jobLogs>>
  /\ UNCHANGED <<jobQueue, nonWorkerVars>>

\* Worker.close() resolves once the Worker runs no job
WorkerClosed(w) ==
  /\ workers[w].state = "closing"
  /\ ActiveJobsOf(w) = {}
  /\ workers' = [workers EXCEPT ![w].state = "closed"]
  /\ UNCHANGED <<queueMap, workerMap, wState, wOwner, wPc, wAttemptsMade, consoleFn,
                 savedConsole, jobLogs>>
  /\ UNCHANGED <<jobQueue, nonWorkerVars>>

NextWorker ==
  \/ \E j \in WJobs :
       \/ AddJob(j)
       \/ JobStart(j)
       \/ ConsoleWrite(j)
       \/ ProcessorEnd(j)
       \/ JobComplete(j)
       \/ JobRethrow(j)
  \/ \E q \in Queues : InitWorkers(q)
  \/ \E w \in 1..MaxWorkers :
       \/ WorkerClosed(w)
       \/ \E j \in WJobs : WorkerClaim(w, j)

(***************************************************************************)
(* Socket fan-out (socketService.ts, with the event sources of             *)
(* queueService.ts and the forwarding of apiServer.ts).                    *)
(***************************************************************************)
Sockets == {1}
SJobs == {1, 2}
\* user ids, as the segments between '-'
Tenants == {<<"a">>, <<"b">>}
NotConnected == <<>>
Groups == {"P"}
NoParent == "null"

\* the tenant that enqueued each job, and the parentId it was enqueued with
SJobTenant(j) == <<"a">>
SJobParent(j) == IF j = 1 THEN NoParent ELSE "P"
\* the attempts option each job was enqueued with
SJobAttempts(j) == IF j = 1 THEN MaxAttemptsOpt ELSE 1
\* workerOptions.maxStalledCount
MaxStalledCount == 2
\* the times the lock of a job can be lost while its callback runs: job 1 is
\* the job that is retried, job 2 the job that stalls
SJobStalls(j) == IF j = 2 THEN MaxStalledCount ELSE 0

\* size of the log cache of one job
MAX_CACHED_LOGS == 100
\* log entries sent with the reply to get-job-state
InitialLogs == 50

\* getQueueName: `bsky-${jobType}-${userId}`, as segments
GetQueueName(jobType, userId) == <<"bsky", jobType>> \o userId

\* queueName.split('-').pop() || ''
UserIdOfQueue(queueName) == <<queueName[Len(queueName)]>>

NoSubscription == [present |-> FALSE, userId |-> NotConnected, activeJobs |-> {}, activeGroups |-> {}]
NoState == [status |-> "none", userId |-> <<>>, parentId |-> Undefined, progress |-> 0]

\* JobEventData: userId <<>> and parentId Undefined stand for an absent key
EventData(j, userId, parentId, progress) ==
  [jobId |-> j, userId |-> userId, parentId |-> parentId, progress |-> progress]

\* data as the queueService emits it on the queueEmitter for a job of the worker
WorkerData(j) == EventData(j, SJobTenant(j), SJobParent(j), 0)

UserRoom(u) == <<"user", u>>
JobRoom(j) == <<"job", j>>
GroupRoom(g) == <<"group", g>>

InitSocket ==
  /\ sockTenant = [s \in Sockets |-> NotConnected]
  /\ rooms = [s \in Sockets |-> {}]
  /\ clientSubscriptions = [s \in Sockets |-> NoSubscription]
  /\ jobStateCache = [j \in SJobs |-> NoState]
  /\ jobLogsCache = [j \in SJobs |-> <<>>]
  /\ emitted = {}
  /\ resent = {}
  /\ unmonitored = <<>>
  /\ sjState = [j \in SJobs |-> "none"]
  /\ sjAttempts = [j \in SJobs |-> 0]
  /\ sjBudget = MaxTelemetry
  /\ stream = <<>>
  /\ seenEnd = [s \in Sockets |-> [j \in SJobs |-> 0]]
  /\ sjStalls = [j \in SJobs |-> 0]
  /\ startedEvents = [j \in SJobs |-> 0]

\* the same start, with the history of the unmonitor-job requests kept
InitWatch ==
  /\ sockTenant = [s \in Sockets |-> NotConnected]
  /\ rooms = [s \in Sockets |-> {}]
  /\ clientSubscriptions = [s \in Sockets |-> NoSubscription]
  /\ jobStateCache = [j \in SJobs |-> NoState]
  /\ jobLogsCache = [j \in SJobs |-> <<>>]
  /\ emitted = {}
  /\ resent = {}
  /\ unmonitored = [s \in Sockets |-> [j \in SJobs |-> 0]]
  /\ sjState = [j \in SJobs |-> "none"]
  /\ sjAttempts = [j \in SJobs |-> 0]
  /\ sjBudget = MaxTelemetry
  /\ stream = <<>>
  /\ seenEnd = [s \in Sockets |-> [j \in SJobs |-> 0]]
  /\ sjStalls = [j \in SJobs |-> 0]
  /\ startedEvents = [j \in SJobs |-> 0]

\* the socket part at rest: nothing connects and no job is added
SocketParked ==
  /\ sockTenant = [s \in Sockets |-> NotConnected]
  /\ rooms = [s \in Sockets |-> {}]
  /\ clientSubscriptions = [s \in Sockets |-> NoSubscription]
  /\ jobStateCache = [j \in SJobs |-> NoState]
  /\ jobLogsCache = [j \in SJobs |-> <<>>]
  /\ emitted = {}
  /\ resent = {}
  /\ unmonitored = <<>>
  /\ sjState = [j \in SJobs |-> "completed"]
  /\ sjAttempts = [j \in SJobs |-> 0]
  /\ sjBudget = 0
  /\ stream = <<>>
  /\ seenEnd = [s \in Sockets |-> [j \in SJobs |-> 0]]
  /\ sjStalls = [j \in SJobs |-> 0]
  /\ startedEvents = [j \in SJobs |-> 0]

\* the socket watches the job: by its id or by the group the job belongs to
Watches(s, j) ==
  \/ j \in clientSubscriptions[s].activeJobs
  \/ SJobParent(j) \in clientSubscriptions[s].activeGroups

\* one socket.emit (or acknowledgement) to socket s
Sent(name, j, s) == [socket |-> s, name |-> name, jobId |-> j]

\* logs.slice(-n)
LastN(logs, n) == IF Len(logs) > n THEN SubSeq(logs, Len(logs) - n + 1, Len(logs)) ELSE logs

\* { ...currentState, ...data }: the keys present in data replace those of currentState
Merge(cur, data) ==
  [cur EXCEPT !.userId = IF data.userId # <<>> THEN data.userId ELSE @,
              !.parentId = IF data.parentId # Undefined THEN data.parentId ELSE @]

\* updateJobState
UpdateJobState(cache, name, data) ==
  LET j == data.jobId
      cur == IF cache[j] # NoState
               THEN cache[j]
               ELSE [status |-> "pending", userId |-> data.userId,
                     parentId |-> Undefined, progress |-> 0]
      new == CASE name = "job:added" ->
                    [status |-> "pending", userId |-> data.userId,
                     parentId |-> data.parentId, progress |-> 0]
               [] name = "job:started" -> [Merge(cur, data) EXCEPT !.status = "running"]
               [] name = "job:progress" ->
                    [cur EXCEPT !.status = "running", !.progress = data.progress]
               [] name = "job:completed" ->
                    [Merge(cur, data) EXCEPT !.status = "completed", !.progress = 100]
               [] name \in {"job:failed", "job:error"} ->
                    [Merge(cur, data) EXCEPT !.status = "failed"]
               [] OTHER -> Merge(cur, data)
  IN [cache EXCEPT ![j] = new]

\* the rooms emitJobEvent sends an event to
CandidateRooms(data) ==
  <<UserRoom(data.userId), JobRoom(data.jobId)>>
    \o (IF data.parentId \notin {Undefined, NoParent} THEN <<GroupRoom(data.parentId)>> ELSE <<>>)

\* the test emitJobEvent makes for each socket of a room
Interested(s, data, room) ==
  /\ clientSubscriptions[s].present
  /\ \/ data.jobId \in clientSubscriptions[s].activeJobs
     \/ data.parentId \in clientSubscriptions[s].activeGroups
     \/ room[1] = "user"

\* how many times emitJobEvent emits the event to socket s
DeliveryCount(s, data) ==
  LET rs == CandidateRooms(data) IN
  Cardinality({i \in 1..Len(rs) : rs[i] \in rooms[s] /\ Interested(s, data, rs[i])})

\* a handleJobLog that sends the line as emitJobEvent sends the other events
HandleJobLog_AsOtherEvents(st, data, entry) ==
  LET sends == {Sent("job:log", data.jobId, s) : s \in
                 {t \in Sockets : DeliveryCount(t, data) > 0}}
  IN [st EXCEPT !.logs[data.jobId] = LastN(Append(@, entry), MAX_CACHED_LOGS),
                !.out = @ \cup sends,
                !.again = @ \cup (sends \cap st.out)]

\* handleJobLog: cache the entry, emit to the sockets of the job room that watch the job
HandleJobLog(st, data, entry) ==
  LET j == data.jobId IN
  LET sends == {Sent("job:log", j, s) : s \in
                 {t \in Sockets : /\ JobRoom(j) \in rooms[t]
                                  /\ clientSubscriptions[t].present
                                  /\ j \in clientSubscriptions[t].activeJobs}}
  IN [st EXCEPT !.logs[j] = LastN(Append(@, entry), MAX_CACHED_LOGS),
                !.out = @ \cup sends,
                !.again = @ \cup (sends \cap st.out)]

\* emitJobEvent for an event other than job:log
EmitJobEvent(st, name, data) ==
  LET sends == {Sent(name, data.jobId, s) : s \in
                 {t \in Sockets : DeliveryCount(t, data) > 0}}
  IN [st EXCEPT !.cache = UpdateJobState(st.cache, name, data),
                !.out = @ \cup sends,
                !.again = @ \cup (sends \cap st.out)
                            \cup {Sent(name, data.jobId, s) : s \in
                                   {t \in Sockets : DeliveryCount(t, data) > 1}}]

\* addJobLog: the event goes to the queueEmitter, whose listener of apiServer
\* calls emitJobEvent, and to emitJobEvent directly
AddJobLogEvents(st, j, entry) ==
  HandleJobLog(HandleJobLog(st, WorkerData(j), entry), WorkerData(j), entry)

\* the data with which an event of the QueueEvents stream reaches emitJobEvent:
\* first as forwarded from the queueEmitter, then as passed directly
QueueEventPaths(j, parentId, progress) ==
  LET q == GetQueueName("basicBot", SJobTenant(j)) IN
  << EventData(j, <<>>, parentId, progress),
     EventData(j, UserIdOfQueue(q), parentId, progress) >>

\* an event of the QueueEvents stream: it goes to the
\* queueEmitter without userId (forwarded by the listener of apiServer) and to
\* emitJobEvent with the userId taken from the queue name
QueueEventEvents(st, name, j, parentId, progress) ==
  LET paths == QueueEventPaths(j, parentId, progress) IN
  EmitJobEvent(EmitJobEvent(st, name, paths[1]), name, paths[2])

\* the Worker's 'failed' event: to the queueEmitter without userId (forwarded
\* by the listener of apiServer) and to emitJobEvent with the Worker's userId
WorkerFailedEvents(st, j) ==
  EmitJobEvent(EmitJobEvent(st, "job:failed", EventData(j, <<>>, SJobParent(j), 0)),
               "job:failed", EventData(j, SJobTenant(j), SJobParent(j), 0))

SockState == [cache |-> jobStateCache, logs |-> jobLogsCache, out |-> {}, again |-> {}]

\* the Worker's 'stalled' event: job:stalled on the queueEmitter, which the
\* listener of apiServer does not forward, and emitJobEvent with the Worker's userId
WorkerStalledEvents(st, j) ==
  EmitJobEvent(st, "job:stalled", EventData(j, SJobTenant(j), Undefined, 0))

\* a callback that announces its start twice
StartEvents_Twice == <<"job:started", "job:started">>

\* the events the Worker's callback emits on the queueEmitter when it starts
StartEvents == <<"job:started">>

\* the listener of apiServer calls emitJobEvent for every event of names, in order
RECURSIVE EmitAll(_, _, _)
EmitAll(st, names, data) ==
  IF names = <<>> THEN st
  ELSE EmitAll(EmitJobEvent(st, Head(names), data), Tail(names), data)

\* the events that end an attempt
EndEvents == {"job:failed", "job:completed"}

\* the caches and emissions after the handler; att is the attempt its events belong to
SetSockState(st, att) ==
  /\ jobStateCache' = st.cache
  /\ jobLogsCache' = st.logs
  /\ emitted' = st.out
  /\ resent' = st.again
  /\ unmonitored' = IF unmonitored = <<>> THEN <<>>
       ELSE [s \in Sockets |-> [j \in SJobs |->
              IF unmonitored[s][j] = 1 /\ st.logs[j] # jobLogsCache[j] THEN 2 ELSE unmonitored[s][j]]]
  /\ seenEnd' = [s \in Sockets |-> [j \in SJobs |->
        IF \E e \in st.out : e.socket = s /\ e.jobId = j /\ e.name \in EndEvents
          THEN att ELSE seenEnd[s][j]]]

\* the history of a socket that connects or disconnects starts anew
Forget(history, s) ==
  IF history = <<>> THEN <<>> ELSE [history EXCEPT ![s] = [j \in SJobs |-> 0]]

\* a socket connects with a user id
Connect(s, t) ==
  /\ sockTenant[s] = NotConnected
  /\ sockTenant' = [sockTenant EXCEPT ![s] = t]
  /\ clientSubscriptions' = [clientSubscriptions EXCEPT ![s] =
        [present |-> TRUE, userId |-> t, activeJobs |-> {}, activeGroups |-> {}]]
  /\ rooms' = [rooms EXCEPT ![s] = {UserRoom(t)}]
  /\ resent' = {}
  /\ emitted' = {}
  /\ unmonitored' = Forget(unmonitored, s)
  /\ seenEnd' = [seenEnd EXCEPT ![s] = [j \in SJobs |-> 0]]
  /\ UNCHANGED <<jobStateCache, jobLogsCache, sjState, sjAttempts, sjBudget, stream, sjStalls, startedEvents>>
  /\ UNCHANGED nonSocketVars

Disconnect(s) ==
  /\ sockTenant[s] # NotConnected
  /\ sockTenant' = [sockTenant EXCEPT ![s] = NotConnected]
  /\ clientSubscriptions' = [clientSubscriptions EXCEPT ![s] = NoSubscription]
  /\ rooms' = [rooms EXCEPT ![s] = {}]
  /\ resent' = {}
  /\ emitted' = {}
  /\ seenEnd' = [seenEnd EXCEPT ![s] = [j \in SJobs |-> 0]]
  /\ UNCHANGED <<jobStateCache, jobLogsCache, sjState, sjAttempts, sjBudget, stream, sjStalls, startedEvents>>
  /\ unmonitored' = Forget(unmonitored, s)
  /\ UNCHANGED nonSocketVars

\* monitor-job
MonitorJob(s, j) ==
  /\ sockTenant[s] # NotConnected
  /\ rooms' = [rooms EXCEPT ![s] = @ \cup {JobRoom(j)}]
  /\ clientSubscriptions' = [clientSubscriptions EXCEPT ![s].activeJobs = @ \cup {j}]
  /\ resent' = {}
  /\ emitted' = IF jobStateCache[j] # NoState THEN {Sent("job:state", j, s)} ELSE {}
  /\ UNCHANGED <<sockTenant, jobStateCache, jobLogsCache, sjState, sjAttempts, sjBudget, stream>>
  /\ UNCHANGED seenEnd
  /\ UNCHANGED <<sjStalls, startedEvents>>
  /\ unmonitored' = IF unmonitored = <<>> THEN <<>> ELSE [unmonitored EXCEPT ![s][j] = 0]
  /\ UNCHANGED nonSocketVars

\* monitor-job-group
MonitorJobGroup(s, g) ==
  /\ sockTenant[s] # NotConnected
  /\ rooms' = [rooms EXCEPT ![s] = @ \cup {GroupRoom(g)}]
  /\ clientSubscriptions' = [clientSubscriptions EXCEPT ![s].activeGroups = @ \cup {g}]
  /\ resent' = {}
  /\ emitted' = {Sent("job:state", j, s) :
                  j \in {k \in SJobs : jobStateCache[k] # NoState /\ jobStateCache[k].parentId = g}}
  /\ UNCHANGED <<sockTenant, jobStateCache, jobLogsCache, sjState, sjAttempts, sjBudget, stream>>
  /\ UNCHANGED seenEnd
  /\ UNCHANGED <<sjStalls, startedEvents>>
  /\ UNCHANGED unmonitored
  /\ UNCHANGED nonSocketVars

\* unmonitor-job
UnmonitorJob(s, j) ==
  /\ sockTenant[s] # NotConnected
  /\ rooms' = [rooms EXCEPT ![s] = @ \ {JobRoom(j)}]
  /\ clientSubscriptions' = [clientSubscriptions EXCEPT ![s].activeJobs = @ \ {j}]
  /\ resent' = {}
  /\ emitted' = {}
  /\ UNCHANGED <<sockTenant, jobStateCache, jobLogsCache, sjState, sjAttempts,
                 sjBudget, stream>>
  /\ UNCHANGED seenEnd
  /\ UNCHANGED <<sjStalls, startedEvents>>
  /\ unmonitored' = IF unmonitored = <<>> \/ j \notin clientSubscriptions[s].activeJobs
                      THEN unmonitored ELSE [unmonitored EXCEPT ![s][j] = 1]
  /\ UNCHANGED nonSocketVars

\* get-job-state: the cached state and the last logs, when the job is cached
GetJobState(s, j) ==
  /\ sockTenant[s] # NotConnected
  /\ jobStateCache[j] # NoState
  /\ resent' = {}
  /\ emitted' = {Sent("reply:state", j, s)}
          \cup (IF LastN(jobLogsCache[j], InitialLogs) # <<>>
                  THEN {Sent("reply:logs", j, s)} ELSE {})
  /\ UNCHANGED <<sockTenant, rooms, clientSubscriptions, jobStateCache, jobLogsCache, sjState,
                 sjAttempts, sjBudget, stream>>
  /\ UNCHANGED seenEnd
  /\ UNCHANGED <<sjStalls, startedEvents>>
  /\ UNCHANGED unmonitored
  /\ UNCHANGED nonSocketVars

\* request-job-logs: the cached logs of the job
RequestJobLogs(s, j) ==
  /\ sockTenant[s] # NotConnected
  /\ jobLogsCache[j] # <<>>
  /\ resent' = {}
  /\ emitted' = {Sent("reply:logs", j, s)}
  /\ UNCHANGED <<sockTenant, rooms, clientSubscriptions, jobStateCache, jobLogsCache, sjState,
                 sjAttempts, sjBudget, stream>>
  /\ UNCHANGED seenEnd
  /\ UNCHANGED <<sjStalls, startedEvents>>
  /\ UNCHANGED unmonitored
  /\ UNCHANGED nonSocketVars

\* addJob: q.add and job:added on the queueEmitter
SJAdd(j) ==
  /\ sjState[j] = "none"
  /\ sjState' = [sjState EXCEPT ![j] = "waiting"]
  /\ SetSockState(EmitJobEvent(SockState, "job:added", WorkerData(j)), sjAttempts[j])
  /\ UNCHANGED <<sockTenant, rooms, clientSubscriptions, sjAttempts, sjBudget, stream, sjStalls, startedEvents>>
  /\ UNCHANGED nonSocketVars

\* the job is activated and the Worker's callback starts: the start log, then
\* its events on the queueEmitter
SJStart(j) ==
  /\ sjState[j] = "waiting"
  /\ sjState' = [sjState EXCEPT ![j] = "active"]
  /\ sjAttempts' = [sjAttempts EXCEPT ![j] = @ + 1]
  /\ startedEvents' = [startedEvents EXCEPT ![j] =
        @ + Cardinality({k \in 1..Len(StartEvents) : StartEvents[k] = "job:started"})]
  /\ SetSockState(EmitAll(AddJobLogEvents(SockState, j, "start"), StartEvents, WorkerData(j)),
                  sjAttempts[j])
  /\ UNCHANGED <<sockTenant, rooms, clientSubscriptions, sjBudget, stream, sjStalls>>
  /\ UNCHANGED nonSocketVars

\* job.updateProgress: a progress event enters the stream of the queue
SJProgress(j) ==
  /\ sjState[j] = "active"
  /\ sjBudget > 0
  /\ sjBudget' = sjBudget - 1
  /\ stream' = Append(stream, [name |-> "job:progress", jobId |-> j, attempt |-> sjAttempts[j]])
  /\ resent' = {}
  /\ emitted' = {}
  /\ UNCHANGED <<sockTenant, rooms, clientSubscriptions, jobStateCache, jobLogsCache,
                 sjState, sjAttempts>>
  /\ UNCHANGED seenEnd
  /\ UNCHANGED <<sjStalls, startedEvents>>
  /\ UNCHANGED unmonitored
  /\ UNCHANGED nonSocketVars

\* a captured console line: addJobLog
SJLog(j) ==
  /\ sjState[j] = "active"
  /\ sjBudget > 0
  /\ sjBudget' = sjBudget - 1
  /\ SetSockState(AddJobLogEvents(SockState, j, "console"), sjAttempts[j])
  /\ UNCHANGED <<sockTenant, rooms, clientSubscriptions, sjState, sjAttempts, stream, sjStalls, startedEvents>>
  /\ UNCHANGED nonSocketVars

\* the processor returns: the completion log; the queue records the job completed
SJComplete(j) ==
  /\ sjState[j] = "active"
  /\ sjState' = [sjState EXCEPT ![j] = "completed"]
  /\ stream' = Append(stream, [name |-> "job:completed", jobId |-> j, attempt |-> sjAttempts[j]])
  /\ SetSockState(AddJobLogEvents(SockState, j, "completed"), sjAttempts[j])
  /\ UNCHANGED <<sockTenant, rooms, clientSubscriptions, sjAttempts, sjBudget, sjStalls, startedEvents>>
  /\ UNCHANGED nonSocketVars

\* the processor throws: the failure log and job:error, then the Worker's
\* 'failed' event; the queue retries the job or records it failed
SJFail(j) ==
  /\ sjState[j] = "active"
  /\ \/ /\ sjAttempts[j] < SJobAttempts(j)
        /\ sjState' = [sjState EXCEPT ![j] = "waiting"]
        /\ UNCHANGED stream
     \/ /\ sjAttempts[j] >= SJobAttempts(j)
        /\ sjState' = [sjState EXCEPT ![j] = "failed"]
        /\ stream' = Append(stream, [name |-> "job:failed", jobId |-> j, attempt |-> sjAttempts[j]])
  /\ SetSockState(
       WorkerFailedEvents(
         EmitJobEvent(AddJobLogEvents(SockState, j, "failed"), "job:error", WorkerData(j)), j),
       sjAttempts[j])
  /\ UNCHANGED <<sockTenant, rooms, clientSubscriptions, sjAttempts, sjBudget, sjStalls, startedEvents>>
  /\ UNCHANGED nonSocketVars

\* the lock of an active job is not renewed in time: the stalled check puts the
\* job back to wait and the Worker emits 'stalled'
SJStall(j) ==
  /\ sjState[j] = "active"
  /\ sjStalls[j] < SJobStalls(j)
  /\ sjBudget > 0
  /\ sjBudget' = sjBudget - 1
  /\ sjState' = [sjState EXCEPT ![j] = "waiting"]
  /\ sjStalls' = [sjStalls EXCEPT ![j] = @ + 1]
  /\ SetSockState(WorkerStalledEvents(SockState, j), sjAttempts[j])
  /\ UNCHANGED <<sockTenant, rooms, clientSubscriptions, sjAttempts, stream, startedEvents>>
  /\ UNCHANGED nonSocketVars

\* the handler of setupQueueEvents for the next event of the stream
StreamDeliver ==
  /\ stream # <<>>
  /\ LET e == Head(stream) IN
     SetSockState(QueueEventEvents(SockState, e.name, e.jobId, Undefined,
                                   IF e.name = "job:progress" THEN 50 ELSE 0),
                  e.attempt)
  /\ stream' = Tail(stream)
  /\ UNCHANGED <<sockTenant, rooms, clientSubscriptions, sjState, sjAttempts, sjBudget, sjStalls, startedEvents>>
  /\ UNCHANGED nonSocketVars

NextSocket ==
  \/ \E s \in Sockets :
       \/ \E t \in Tenants : Connect(s, t)
       \/ Disconnect(s)
       \/ \E j \in SJobs :
            \/ MonitorJob(s, j)
            \/ UnmonitorJob(s, j)
            \/ GetJobState(s, j)
            \/ RequestJobLogs(s, j)
       \/ \E g \in Groups : MonitorJobGroup(s, g)
  \/ \E j \in SJobs :
       \/ SJAdd(j)
       \/ SJStart(j)
       \/ SJProgress(j)
       \/ SJLog(j)
       \/ SJComplete(j)
       \/ SJFail(j)
       \/ SJStall(j)
  \/ StreamDeliver

(***************************************************************************)
(* Engagement strategies (engagementStrategy.ts).                          *)
(***************************************************************************)
Strategies == {"random", "human-like"}
\* the likePercentage values given to a strategy
Percentages == {20, 70}
\* the delayRange and skipRange values given to a strategy
DelayRanges == {<<4, 6>>, <<2, 9>>}
SkipRanges == {<<0, 1>>}

NoAction == [type |-> "none", delay |-> 0, skip |-> 0, index |-> 0, session |-> 0, first |-> FALSE]
NoCounts == [len |-> 0, likes |-> 0, reposts |-> 0]

\* Math.max, Math.min
Max(a, b) == IF a >= b THEN a ELSE b
Min(a, b) == IF a <= b THEN a ELSE b

\* Math.floor(n * (pct / 100))
FloorPct(n, pct) == (n * pct) \div 100

\* Math.round(n * (pct / 100)): halves round up
RoundPct(n, pct) == (2 * n * pct + 100) \div 200

\* the inclusive upper end getRandomInt must not pass
GetRandomInt_Wide(min, max) == min..(max + 1)

\* the values getRandomInt(min, max) can return, for integers min and max:
\* Math.floor(Math.random() * (max - min + 1)) + min
GetRandomInt(min, max) == IF min <= max THEN min..max ELSE (max + 1)..min

\* the values Math.floor(Math.random() * remaining / 2) can take
HalfDraws(remaining) == IF remaining <= 1 THEN {0} ELSE 0..((remaining - 1) \div 2)

\* sessionDelayRange of the human-like strategy
SessionDelayRange(range) == <<Max(1, range[1] \div 2), Max(2, range[2] \div 3)>>

\* the seconds executeEngagement sleeps before it performs an action
WaitBefore(action) == action.delay

\* plannedActions.push({type, delay, skip, index})
Push(counts, type) ==
  [len |-> counts.len + 1,
   likes |-> counts.likes + (IF type = "like" THEN 1 ELSE 0),
   reposts |-> counts.reposts + (IF type = "repost" THEN 1 ELSE 0)]

InitPlan ==
  /\ strategyType \in Strategies
  /\ numberOfActions \in 0..MaxActions
  /\ likePercentage \in Percentages
  /\ delayRange \in DelayRanges
  /\ skipRange \in SkipRanges
  /\ planPc = "start"
  /\ likeCount = 0
  /\ repostCount = 0
  /\ actionsPerSession = <<>>
  /\ remainingActions = 0
  /\ sessionIdx = 0
  /\ sessionLikes = 0
  /\ likeRemaining = 0
  /\ loopI = 0
  /\ planCounts = NoCounts
  /\ lastPlanned = NoAction
  /\ totalTime = 0

\* the strategies at rest: no plan is asked for
PlanParked ==
  /\ strategyType = "random"
  /\ numberOfActions = 0
  /\ likePercentage = 70
  /\ delayRange = <<4, 6>>
  /\ skipRange = <<0, 1>>
  /\ planPc = "done"
  /\ likeCount = 0
  /\ repostCount = 0
  /\ actionsPerSession = <<>>
  /\ remainingActions = 0
  /\ sessionIdx = 0
  /\ sessionLikes = 0
  /\ likeRemaining = 0
  /\ loopI = 0
  /\ planCounts = NoCounts
  /\ lastPlanned = NoAction
  /\ totalTime = 0

\* numberOfSessions of the human-like strategy
NumberOfSessions == Max(1, numberOfActions \div 5)

\* simulate(), up to the loops: likeCount and repostCount
SimulateStart ==
  /\ planPc = "start"
  /\ likeCount' = FloorPct(numberOfActions, likePercentage)
  /\ repostCount' = numberOfActions - FloorPct(numberOfActions, likePercentage)
  /\ IF strategyType = "random"
       THEN /\ planPc' = "actions"
            /\ UNCHANGED <<remainingActions, likeRemaining>>
       ELSE /\ planPc' = "distribute"
            /\ remainingActions' = numberOfActions
            /\ likeRemaining' = FloorPct(numberOfActions, likePercentage)
  /\ UNCHANGED <<strategyType, numberOfActions, likePercentage, delayRange, skipRange,
                 actionsPerSession, sessionIdx, sessionLikes, loopI, planCounts,
                 lastPlanned, totalTime>>
  /\ UNCHANGED nonPlanVars

\* RandomEngagementStrategy.simulate(): one iteration of the loop
RandomAction ==
  /\ planPc = "actions"
  /\ strategyType = "random"
  /\ loopI < numberOfActions
  /\ \E delay \in GetRandomInt(delayRange[1], delayRange[2]),
        skip \in GetRandomInt(skipRange[1], skipRange[2]) :
       LET type == IF loopI < likeCount THEN "like" ELSE "repost" IN
       /\ planCounts' = Push(planCounts, type)
       /\ lastPlanned' = [type |-> type, delay |-> delay, skip |-> skip, index |-> loopI,
                          session |-> 0, first |-> loopI = 0]
       /\ totalTime' = totalTime + delay
  /\ loopI' = loopI + 1
  /\ UNCHANGED <<strategyType, numberOfActions, likePercentage, delayRange, skipRange, planPc,
                 likeCount, repostCount, actionsPerSession, remainingActions, sessionIdx,
                 sessionLikes, likeRemaining>>
  /\ UNCHANGED nonPlanVars

\* human-like: the loop that gives each session but the last its actions, and
\* the last session the rest
DistributeSession ==
  /\ planPc = "distribute"
  /\ IF Len(actionsPerSession) < NumberOfSessions - 1
       THEN \E draw \in HalfDraws(remainingActions) :
              LET i == Len(actionsPerSession)
                  sessionActions == Min(remainingActions - (NumberOfSessions - i - 1),
                                        Max(1, draw))
              IN /\ actionsPerSession' = Append(actionsPerSession, sessionActions)
                 /\ remainingActions' = remainingActions - sessionActions
                 /\ UNCHANGED planPc
       ELSE /\ actionsPerSession' = Append(actionsPerSession, remainingActions)
            /\ planPc' = "session"
            /\ UNCHANGED remainingActions
  /\ UNCHANGED <<strategyType, numberOfActions, likePercentage, delayRange, skipRange,
                 likeCount, repostCount, sessionIdx, sessionLikes, likeRemaining, loopI,
                 planCounts, lastPlanned, totalTime>>
  /\ UNCHANGED nonPlanVars

\* human-like: the head of the session loop: sessionLikes, and for every
\* session after the first the long delay, which is added to totalTime
SessionStart ==
  /\ planPc = "session"
  /\ sessionIdx < NumberOfSessions
  /\ LET sessionActionCount == actionsPerSession[sessionIdx + 1]
         likes == Min(likeRemaining, RoundPct(sessionActionCount, likePercentage))
     IN /\ sessionLikes' = likes
        /\ likeRemaining' = likeRemaining - likes
  /\ IF sessionIdx > 0
       THEN \E longDelay \in GetRandomInt(delayRange[2], delayRange[2] * 3) :
              totalTime' = totalTime + longDelay
       ELSE UNCHANGED totalTime
  /\ loopI' = 0
  /\ planPc' = "actions"
  /\ UNCHANGED <<strategyType, numberOfActions, likePercentage, delayRange, skipRange,
                 likeCount, repostCount, actionsPerSession, remainingActions, sessionIdx,
                 planCounts, lastPlanned>>
  /\ UNCHANGED nonPlanVars

\* human-like: one iteration of the loop over the actions of a session
SessionAction ==
  /\ planPc = "actions"
  /\ strategyType = "human-like"
  /\ loopI < actionsPerSession[sessionIdx + 1]
  /\ LET sessionDelayRange == SessionDelayRange(delayRange)
         biased == IF loopI = 0 THEN skipRange[2] \div 2 ELSE skipRange[2]
     IN \E delay \in GetRandomInt(sessionDelayRange[1], sessionDelayRange[2]),
           skip \in GetRandomInt(0, biased) :
          LET type == IF loopI < sessionLikes THEN "like" ELSE "repost" IN
          /\ planCounts' = Push(planCounts, type)
          /\ lastPlanned' = [type |-> type, delay |-> delay, skip |-> skip,
                             index |-> planCounts.len, session |-> sessionIdx,
                             first |-> loopI = 0]
          /\ totalTime' = totalTime + delay
  /\ loopI' = loopI + 1
  /\ UNCHANGED <<strategyType, numberOfActions, likePercentage, delayRange, skipRange, planPc,
                 likeCount, repostCount, actionsPerSession, remainingActions, sessionIdx,
                 sessionLikes, likeRemaining>>
  /\ UNCHANGED nonPlanVars

\* human-like: a session's actions are all pushed, on to the next session
SessionEnd ==
  /\ planPc = "actions"
  /\ strategyType = "human-like"
  /\ loopI = actionsPerSession[sessionIdx + 1]
  /\ sessionIdx' = sessionIdx + 1
  /\ planPc' = "session"
  /\ UNCHANGED <<strategyType, numberOfActions, likePercentage, delayRange, skipRange,
                 likeCount, repostCount, actionsPerSession, remainingActions, sessionLikes,
                 likeRemaining, loopI, planCounts, lastPlanned, totalTime>>
  /\ UNCHANGED nonPlanVars

\* simulate() returns {plannedActions, totalTime, likeCount, repostCount}
SimulateReturn ==
  /\ \/ planPc = "actions" /\ strategyType = "random" /\ loopI = numberOfActions
     \/ planPc = "session" /\ sessionIdx = NumberOfSessions
  /\ planPc' = "done"
  /\ UNCHANGED <<strategyType, numberOfActions, likePercentage, delayRange, skipRange,
                 likeCount, repostCount, actionsPerSession, remainingActions, sessionIdx,
                 sessionLikes, likeRemaining, loopI, planCounts, lastPlanned, totalTime>>
  /\ UNCHANGED nonPlanVars

NextPlan ==
  \/ SimulateStart
  \/ RandomAction
  \/ DistributeSession
  \/ SessionStart
  \/ SessionAction
  \/ SessionEnd
  \/ SimulateReturn

(***************************************************************************)
(* Processors of engagement and mass post jobs (EngagementBotProcessor,    *)
(* MassPostProcessor) and EngagementService.executeEngagement.             *)
(***************************************************************************)
JobKinds == {"engagementBot", "massPost", "executeEngagement"}

\* what performing one planned action, or creating one post, can do
Outcomes(kind) == IF kind = "massPost" THEN {"ok", "throws", "reauthThrows", "pinThrows"}
                                       ELSE {"ok", "throws", "malformed"}

\* all sequences over S of length at most n
SeqsUpTo(S, n) == UNION {[1..k -> S] : k \in 0..n}

\* the stopOnError option the engagement processor passes to executeEngagement
StopOnError == FALSE

\* the values action.skip takes in the plans given to the executor
Skips == {0, 2}
\* the lengths of the timeline feed given to the executor
FeedLengths == {1, 3}
\* options.delayRange of the mass post jobs
PostDelayRange == <<1, 2>>

\* Array.prototype.reverse
Reverse(seq) == [k \in 1..Len(seq) |-> seq[Len(seq) + 1 - k]]

\* postsToProcesS: the outcome and the pin flag of every post in iteration order
PostsToProcess == IF reverseOrder THEN Reverse(items) ELSE items
PinsToProcess == IF reverseOrder THEN Reverse(pinFlags) ELSE pinFlags

\* the progress values a processor reports before its loop
SetupProgress(kind) == IF kind = "engagementBot" THEN <<30, 40, 50>> ELSE <<20, 30>>

\* reportActionProgress: 50 + Math.floor((processedActions / totalActions) * 50)
ActionPercentage(processed, totalActions) == 50 + ((processed * 50) \div totalActions)

\* a percentage of the posts still to do instead of the posts done
ProgressPercentage_Remaining(i, postCount) == 30 + (((postCount - i - 1) * 60) \div postCount)

\* mass post: 30 + Math.floor(((i + 1) / postCount) * 60)
ProgressPercentage(i, postCount) == 30 + (((i + 1) * 60) \div postCount)

\* results.filter(r => r.success).length and results.filter(r => !r.success).length
SuccessCount(rs) == Cardinality({k \in 1..Len(rs) : rs[k]})
ErrorCount(rs) == Cardinality({k \in 1..Len(rs) : ~rs[k]})

\* the cursor left where it is, however far it has run past the feed
ClampToLast_Off(index, length) == index

\* if (currentPostIndex >= timelinePosts.length) currentPostIndex = length - 1
ClampToLast(index, length) == IF index >= length THEN length - 1 ELSE index

\* an iteration that never reaches its catch block
PostSucceeds_Always(outcome, pins) == TRUE

\* mass post: the try block of an iteration runs to its end: the post is
\* created, and pinPost, when it is called, does not throw
PostSucceeds(outcome, pins) == outcome = "ok" \/ (outcome = "pinThrows" /\ ~pins)

\* the pinned field of a record whenever some post of the batch is pinned
RecordPinned_AnyPinned(pin, nowPinned) == nowPinned

\* the pinned field of a success record: post.pin && pinned
RecordPinned(pin, nowPinned) == pin /\ nowPinned

InitExec ==
  /\ jobKind \in JobKinds
  /\ items \in SeqsUpTo(Outcomes(jobKind), MaxPlanned)
  /\ execPc = "start"
  /\ execI = 0
  /\ results = <<>>
  /\ processedActions = 0
  /\ callbacks = <<>>
  /\ progressReports = <<>>
  /\ stopOnError \in (IF jobKind = "executeEngagement" THEN BOOLEAN ELSE {StopOnError})
  /\ reverseOrder \in (IF jobKind = "massPost" THEN BOOLEAN ELSE {FALSE})
  /\ pinFlags \in [1..Len(items) -> IF jobKind = "massPost" THEN BOOLEAN ELSE {FALSE}]
  /\ pinned = FALSE
  /\ resultPinned = <<>>
  /\ sleeping = FALSE
  /\ lastSleep = 0
  /\ skips \in [1..Len(items) -> IF jobKind = "massPost" THEN {0} ELSE Skips]
  /\ feedLength \in (IF jobKind = "massPost" THEN {1} ELSE FeedLengths)
  /\ currentPostIndex = 0
  /\ readIndex = -1
  /\ shuttingDown = FALSE

\* no job is being processed
ExecParked ==
  /\ jobKind = "massPost"
  /\ items = <<>>
  /\ execPc = "done"
  /\ execI = 0
  /\ results = <<>>
  /\ processedActions = 0
  /\ callbacks = <<>>
  /\ progressReports = <<>>
  /\ stopOnError = FALSE
  /\ reverseOrder = FALSE
  /\ pinFlags = <<>>
  /\ pinned = FALSE
  /\ resultPinned = <<>>
  /\ sleeping = FALSE
  /\ lastSleep = 0
  /\ skips = <<>>
  /\ feedLength = 1
  /\ currentPostIndex = 0
  /\ readIndex = -1
  /\ shuttingDown = FALSE

\* the inputs of the run, which no step changes
execInputs == <<jobKind, items, stopOnError, reverseOrder, pinFlags, skips, feedLength>>

\* process(): the first report
ProcessStart ==
  /\ execPc = "start"
  /\ jobKind # "executeEngagement"
  /\ progressReports' = Append(progressReports, 10)
  /\ execPc' = "setup"
  /\ UNCHANGED <<execInputs, execI, results, processedActions, callbacks, pinned,
                 resultPinned, sleeping, lastSleep, currentPostIndex, readIndex,
                 shuttingDown>>
  /\ UNCHANGED nonExecVars

\* process() up to its loop: validation, authentication, proxy check, and for
\* an engagement job the plan and the timeline; each report of this part is
\* followed by a call that can throw
ProcessSetup ==
  /\ execPc = "setup"
  /\ \/ \E k \in 0..Len(SetupProgress(jobKind)) :
          /\ (jobKind = "massPost" /\ items = <<>>) => k = 0
          /\ progressReports' = progressReports \o SubSeq(SetupProgress(jobKind), 1, k)
          /\ execPc' = "failed"
     \/ /\ ~(jobKind = "massPost" /\ items = <<>>)
        /\ progressReports' = progressReports \o SetupProgress(jobKind)
        /\ execPc' = "loop"
  /\ UNCHANGED <<execInputs, execI, results, processedActions, callbacks, pinned,
                 resultPinned, sleeping, lastSleep, currentPostIndex, readIndex,
                 shuttingDown>>
  /\ UNCHANGED nonExecVars

\* executeEngagement called directly, with a feed that is not empty
ExecuteEngagement ==
  /\ execPc = "start"
  /\ jobKind = "executeEngagement"
  /\ execPc' = "loop"
  /\ UNCHANGED <<execInputs, execI, results, processedActions, callbacks, progressReports,
                 pinned, resultPinned, sleeping, lastSleep, currentPostIndex, readIndex,
                 shuttingDown>>
  /\ UNCHANGED nonExecVars

\* the process receives SIGTERM or SIGINT while the loop runs: gracefulShutdown
\* begins; nothing hands the signal to the executor
ShutdownBegins ==
  /\ execPc = "loop"
  /\ ~shuttingDown
  /\ shuttingDown' = TRUE
  /\ UNCHANGED <<execInputs, execPc, execI, results, processedActions, callbacks,
                 progressReports, pinned, resultPinned, sleeping, lastSleep,
                 currentPostIndex, readIndex>>
  /\ UNCHANGED nonExecVars

\* progressCallback: the engagement processor's is job.log, then
\* reportActionProgress
ProgressCallback(i) ==
  /\ callbacks' = Append(callbacks, i)
  /\ IF jobKind = "engagementBot"
       THEN /\ processedActions' = processedActions + 1
            /\ progressReports' = Append(progressReports,
                                         ActionPercentage(processedActions + 1, Len(items)))
       ELSE UNCHANGED <<processedActions, progressReports>>

\* executeEngagement: an iteration begins: await sleep(action.delay * 1000)
ActionSleep ==
  /\ execPc = "loop"
  /\ jobKind # "massPost"
  /\ execI < Len(items)
  /\ ~sleeping
  /\ sleeping' = TRUE
  /\ UNCHANGED <<execInputs, execPc, execI, results, processedActions, callbacks,
                 progressReports, pinned, resultPinned, lastSleep, currentPostIndex,
                 readIndex, shuttingDown>>
  /\ UNCHANGED nonExecVars

\* executeEngagement: the rest of an iteration of the loop over plannedActions,
\* once the sleep has run its time
ExecuteAction ==
  /\ execPc = "loop"
  /\ jobKind # "massPost"
  /\ execI < Len(items)
  /\ sleeping
  /\ sleeping' = FALSE
  /\ LET index == ClampToLast(currentPostIndex + skips[execI + 1], feedLength) IN
     /\ readIndex' = index
     /\ CASE items[execI + 1] = "malformed" ->
               \* feedItem invalid or missing .post: continue
               /\ currentPostIndex' = index
               /\ execI' = execI + 1
               /\ UNCHANGED <<results, callbacks, processedActions, progressReports, execPc>>
          [] items[execI + 1] = "ok" ->
               /\ currentPostIndex' = index + 1
               /\ results' = Append(results, TRUE)
               /\ ProgressCallback(execI)
               /\ execI' = execI + 1
               /\ UNCHANGED execPc
          [] items[execI + 1] = "throws" ->
               /\ currentPostIndex' = index
               /\ results' = Append(results, FALSE)
               /\ IF stopOnError
                    THEN /\ execPc' = "broken"
                         /\ UNCHANGED <<execI, callbacks, processedActions, progressReports>>
                    ELSE /\ ProgressCallback(execI)
                         /\ execI' = execI + 1
                         /\ UNCHANGED execPc
  /\ UNCHANGED <<execInputs, pinned, resultPinned, lastSleep, shuttingDown>>
  /\ UNCHANGED nonExecVars

\* mass post: one iteration of the loop over the posts, up to the pause before
\* the next post when there is one, to the end when there is none
ProcessPost ==
  /\ execPc = "loop"
  /\ jobKind = "massPost"
  /\ execI < Len(items)
  /\ ~sleeping
  /\ LET outcome == PostsToProcess[execI + 1]
         pin == PinsToProcess[execI + 1]
         pins == pin /\ ~pinned
         success == PostSucceeds(outcome, pins)
         nowPinned == pinned \/ (success /\ pins)
     IN /\ pinned' = nowPinned
        /\ results' = Append(results, success)
        /\ resultPinned' = Append(resultPinned, success /\ RecordPinned(pin, nowPinned))
        /\ IF success /\ execI < Len(items) - 1
             THEN /\ \E delaySeconds \in GetRandomInt(PostDelayRange[1], PostDelayRange[2]) :
                       lastSleep' = delaySeconds
                  /\ sleeping' = TRUE
                  /\ UNCHANGED <<execI, progressReports>>
             ELSE /\ lastSleep' = 0
                  /\ progressReports' = Append(progressReports,
                                               ProgressPercentage(execI, Len(items)))
                  /\ execI' = execI + 1
                  /\ UNCHANGED sleeping
  /\ UNCHANGED <<execInputs, execPc, processedActions, callbacks, currentPostIndex,
                 readIndex, shuttingDown>>
  /\ UNCHANGED nonExecVars

\* mass post: the pause has run its time: the iteration ends with its report
PostSleepEnd ==
  /\ execPc = "loop"
  /\ jobKind = "massPost"
  /\ sleeping
  /\ sleeping' = FALSE
  /\ progressReports' = Append(progressReports, ProgressPercentage(execI, Len(items)))
  /\ execI' = execI + 1
  /\ UNCHANGED <<execInputs, execPc, results, processedActions, callbacks, pinned,
                 resultPinned, lastSleep, currentPostIndex, readIndex, shuttingDown>>
  /\ UNCHANGED nonExecVars

\* after the loop: executeEngagement returns results; process() gives its last
\* report and returns the statistics
ProcessReturn ==
  /\ \/ execPc = "loop" /\ execI = Len(items)
     \/ execPc = "broken"
  /\ progressReports' = IF jobKind = "executeEngagement" THEN progressReports
                                                          ELSE Append(progressReports, 100)
  /\ execPc' = "done"
  /\ UNCHANGED <<execInputs, execI, results, processedActions, callbacks, pinned,
                 resultPinned, sleeping, lastSleep, currentPostIndex, readIndex,
                 shuttingDown>>
  /\ UNCHANGED nonExecVars

NextExec ==
  \/ ProcessStart
  \/ ProcessSetup
  \/ ExecuteEngagement
  \/ ShutdownBegins
  \/ ActionSleep
  \/ ExecuteAction
  \/ ProcessPost
  \/ PostSleepEnd
  \/ ProcessReturn

(***************************************************************************)
(* The log of one running job, in job.data.logs and in the log cache of    *)
(* the socket service.                                                     *)
(***************************************************************************)
\* the job that writes
Writer == 1

\* job 1 runs in a Worker's callback; nothing else happens and no socket is connected
InitLogs ==
  /\ jobQueue = [j \in WJobs |-> "basicBot:T"]
  /\ queueMap = {}
  /\ workerMap = [q \in Queues |-> NoWorker]
  /\ workers = [w \in 1..MaxWorkers |-> UnusedWorker]
  /\ wState = [j \in WJobs |-> IF j = Writer THEN "active" ELSE "completed"]
  /\ wOwner = [j \in WJobs |-> NoWorker]
  /\ wPc = [j \in WJobs |-> IF j = Writer THEN "running" ELSE "idle"]
  /\ wAttemptsMade = [j \in WJobs |-> IF j = Writer THEN 1 ELSE 0]
  /\ consoleFn = <<>>
  /\ savedConsole = [j \in WJobs |-> <<>>]
  /\ jobLogs = [j \in WJobs |-> <<>>]
  /\ SocketParked

\* addJobLog(job, level, message) for the next line of the running job:
\* logs.push and job.updateData, then job:log on the queueEmitter and to
\* emitJobEvent
AddJobLogCall(j) ==
  /\ wPc[j] = "running"
  /\ Len(jobLogs[j]) < MaxWrites
  /\ LET entry == LogEntry(j, Len(jobLogs[j]) + 1) IN
     /\ jobLogs' = AddJobLog(jobLogs, j, entry)
     /\ jobLogsCache' = AddJobLogEvents(SockState, j, entry).logs
     /\ emitted' = AddJobLogEvents(SockState, j, entry).out
     /\ resent' = AddJobLogEvents(SockState, j, entry).again
  /\ UNCHANGED <<queueMap, workerMap, workers, wState, wOwner, wPc, wAttemptsMade, consoleFn,
                 savedConsole, jobQueue>>
  /\ UNCHANGED <<sockTenant, rooms, clientSubscriptions, jobStateCache, sjState, sjAttempts,
                 sjBudget, stream, seenEnd, sjStalls, startedEvents, unmonitored>>
  /\ UNCHANGED <<authVars, planVars, execVars, shutVars, imageVars, listVars>>

NextLogs == AddJobLogCall(Writer)

(***************************************************************************)
(* Graceful shutdown (app.ts gracefulShutdown, queueService closeAllQueues, *)
(* redis closeRedisConnections).                                           *)
(***************************************************************************)
\* the signals the process receives: each one calls gracefulShutdown
Signals == {1, 2}
\* the Workers registered in workerMap, in the order of its entries
SdWorkers == {1, 2}

Running == -1

InitShut ==
  /\ sdPc = [r \in Signals |-> "idle"]
  /\ sdIdx = [r \in Signals |-> 1]
  /\ httpClosed = FALSE
  /\ sdWorkers = [w \in SdWorkers |-> "running"]
  /\ sdJobs \in [SdWorkers -> {"none", "active", "hung"}]
  /\ sdWorkerMap = SdWorkers
  /\ sdQueuesClosed = FALSE
  /\ sdRedisClosed = FALSE
  /\ exitCode = Running

\* no signal arrives
ShutParked ==
  /\ sdPc = [r \in Signals |-> "idle"]
  /\ sdIdx = [r \in Signals |-> 1]
  /\ httpClosed = FALSE
  /\ sdWorkers = [w \in SdWorkers |-> "running"]
  /\ sdJobs = [w \in SdWorkers |-> "none"]
  /\ sdWorkerMap = {}
  /\ sdQueuesClosed = FALSE
  /\ sdRedisClosed = FALSE
  /\ exitCode = -2

\* the entries of workerMap from position idx on
Remaining(idx) == {w \in sdWorkerMap : w >= idx}

\* a running Worker (autorun) claims the next job of its queue
ClaimWork(w) ==
  /\ exitCode = Running
  /\ sdWorkers[w] = "running"
  /\ sdJobs[w] = "none"
  /\ \E kind \in {"active", "hung"} : sdJobs' = [sdJobs EXCEPT ![w] = kind]
  /\ UNCHANGED <<sdPc, sdIdx, httpClosed, sdWorkers, sdWorkerMap, sdQueuesClosed,
                 sdRedisClosed, exitCode>>
  /\ UNCHANGED nonShutVars

\* the processor of an in-flight job returns or throws
JobFinishes(w) ==
  /\ exitCode = Running
  /\ sdJobs[w] = "active"
  /\ sdJobs' = [sdJobs EXCEPT ![w] = "none"]
  /\ UNCHANGED <<sdPc, sdIdx, httpClosed, sdWorkers, sdWorkerMap, sdQueuesClosed,
                 sdRedisClosed, exitCode>>
  /\ UNCHANGED nonShutVars

\* SIGTERM or SIGINT: the handler calls gracefulShutdown(signal)
Signal(r) ==
  /\ exitCode = Running
  /\ sdPc[r] = "idle"
  /\ \A q \in Signals : q < r => sdPc[q] # "idle"
  /\ sdPc' = [sdPc EXCEPT ![r] = "stopServer"]
  /\ UNCHANGED <<sdIdx, httpClosed, sdWorkers, sdJobs, sdWorkerMap, sdQueuesClosed,
                 sdRedisClosed, exitCode>>
  /\ UNCHANGED nonShutVars

\* await stopServer(): httpServer.close gives an error when the server was
\* closed before; gracefulShutdown catches it and calls process.exit(1)
StopServer(r) ==
  /\ exitCode = Running
  /\ sdPc[r] = "stopServer"
  /\ IF httpClosed
       THEN /\ exitCode' = 1
            /\ sdPc' = [sdPc EXCEPT ![r] = "exited"]
            /\ UNCHANGED httpClosed
       ELSE /\ httpClosed' = TRUE
            /\ sdPc' = [sdPc EXCEPT ![r] = "closeWorkers"]
            /\ UNCHANGED exitCode
  /\ UNCHANGED <<sdIdx, sdWorkers, sdJobs, sdWorkerMap, sdQueuesClosed, sdRedisClosed>>
  /\ UNCHANGED nonShutVars

\* closeAllQueues, loop over workerMap: w.close() is called for the next
\* Worker, which stops claiming jobs
CloseWorker(r) ==
  /\ exitCode = Running
  /\ sdPc[r] = "closeWorkers"
  /\ Remaining(sdIdx[r]) # {}
  /\ LET w == CHOOSE x \in Remaining(sdIdx[r]) : \A y \in Remaining(sdIdx[r]) : x <= y IN
     /\ sdWorkers' = [sdWorkers EXCEPT ![w] = IF @ = "running" THEN "closing" ELSE @]
     /\ sdIdx' = [sdIdx EXCEPT ![r] = w]
  /\ sdPc' = [sdPc EXCEPT ![r] = "awaitWorker"]
  /\ UNCHANGED <<httpClosed, sdJobs, sdWorkerMap, sdQueuesClosed, sdRedisClosed, exitCode>>
  /\ UNCHANGED nonShutVars

\* await w.close() returns once the Worker has no job in flight
WorkerClosedReturns(r) ==
  /\ exitCode = Running
  /\ sdPc[r] = "awaitWorker"
  /\ sdJobs[sdIdx[r]] = "none"
  /\ sdWorkers' = [sdWorkers EXCEPT ![sdIdx[r]] = "closed"]
  /\ sdIdx' = [sdIdx EXCEPT ![r] = @ + 1]
  /\ sdPc' = [sdPc EXCEPT ![r] = "closeWorkers"]
  /\ UNCHANGED <<httpClosed, sdJobs, sdWorkerMap, sdQueuesClosed, sdRedisClosed, exitCode>>
  /\ UNCHANGED nonShutVars

\* closeAllQueues after the loop over the Workers: workerMap.clear(), then the
\* QueueEvents and the Queues are closed and their maps cleared
CloseQueues(r) ==
  /\ exitCode = Running
  /\ sdPc[r] = "closeWorkers"
  /\ Remaining(sdIdx[r]) = {}
  /\ sdWorkerMap' = {}
  /\ sdQueuesClosed' = TRUE
  /\ sdPc' = [sdPc EXCEPT ![r] = "closeRedis"]
  /\ UNCHANGED <<sdIdx, httpClosed, sdWorkers, sdJobs, sdRedisClosed, exitCode>>
  /\ UNCHANGED nonShutVars

\* await closeRedisConnections(), then process.exit(0)
CloseRedisAndExit(r) ==
  /\ exitCode = Running
  /\ sdPc[r] = "closeRedis"
  /\ sdRedisClosed' = TRUE
  /\ exitCode' = 0
  /\ sdPc' = [sdPc EXCEPT ![r] = "exited"]
  /\ UNCHANGED <<sdIdx, httpClosed, sdWorkers, sdJobs, sdWorkerMap, sdQueuesClosed>>
  /\ UNCHANGED nonShutVars

\* the steps of one call of gracefulShutdown
GracefulShutdown(r) ==
  \/ StopServer(r)
  \/ CloseWorker(r)
  \/ WorkerClosedReturns(r)
  \/ CloseQueues(r)
  \/ CloseRedisAndExit(r)

NextShut ==
  \/ \E r \in Signals : Signal(r)
  \/ \E w \in SdWorkers : ClaimWork(w)
  \/ \E w \in SdWorkers : JobFinishes(w)
  \/ \E r \in Signals : GracefulShutdown(r)

(***************************************************************************)
(* The image of a post (MassPostProcessor.createPostWithImage, resizeImage).*)
(***************************************************************************)
\* Bluesky's limit with a safety margin, in bytes
MAX_IMAGE_SIZE == 900 * 1024

\* sizes in bytes of the images the posts carry
ImageSizes == {0, 460800, 460801, MAX_IMAGE_SIZE, MAX_IMAGE_SIZE + 1, 1048576, 5000000}

\* sizes in bytes sharp can produce for resize(1280).jpeg({quality: 80}): the
\* width is capped, the height and the size of the result are not
JpegSizes == {200000, MAX_IMAGE_SIZE, MAX_IMAGE_SIZE + 1, 3000000}

InitImage ==
  /\ imgPc = "start"
  /\ imageSource \in {"data", "url"}
  /\ blobSize \in ImageSizes
  /\ sharp \in {"available", "missing", "throws"}
  /\ uploaded = <<>>

\* no post with an image is created
ImageParked ==
  /\ imgPc = "parked"
  /\ imageSource = "data"
  /\ blobSize = 0
  /\ sharp = "missing"
  /\ uploaded = <<>>

\* buffer.subarray(0, maxSizeBytes / 2)
Subarray(length, end) == IF length <= end THEN length ELSE end

\* createPostWithImage up to the size check: the blob is decoded from the data
\* URI or fetched (a response that is not ok throws)
CreatePostWithImage ==
  /\ imgPc = "start"
  /\ \E ok \in (IF imageSource = "url" THEN BOOLEAN ELSE {TRUE}) :
       imgPc' = IF ~ok THEN "threw"
                ELSE IF blobSize > MAX_IMAGE_SIZE THEN "resize" ELSE "upload"
  /\ UNCHANGED <<imageSource, blobSize, sharp, uploaded>>
  /\ UNCHANGED nonImageVars

\* resizeImage(blob, MAX_IMAGE_SIZE): with sharp one resize and re-encoding,
\* returned as it comes; without sharp, or when sharp throws, the first
\* maxSizeBytes / 2 bytes of the buffer
ResizeImage ==
  /\ imgPc = "resize"
  /\ IF blobSize <= MAX_IMAGE_SIZE
       THEN UNCHANGED blobSize
       ELSE IF sharp = "available"
         THEN blobSize' \in JpegSizes
         ELSE blobSize' = Subarray(blobSize, MAX_IMAGE_SIZE \div 2)
  /\ imgPc' = "upload"
  /\ UNCHANGED <<imageSource, sharp, uploaded>>
  /\ UNCHANGED nonImageVars

\* agent.uploadBlob(imageData), then agent.post
UploadBlob ==
  /\ imgPc = "upload"
  /\ uploaded' = Append(uploaded, blobSize)
  /\ \E ok \in BOOLEAN : imgPc' = IF ok THEN "posted" ELSE "threw"
  /\ UNCHANGED <<imageSource, blobSize, sharp>>
  /\ UNCHANGED nonImageVars

NextImage ==
  \/ CreatePostWithImage
  \/ ResizeImage
  \/ UploadBlob

(***************************************************************************)
(* Listing the jobs of a parent (queueService getJobsByParentId, addJob,   *)
(* addBulkJobs, and the job states of the queue backend).                  *)
(***************************************************************************)
\* the parentId values given at enqueue time
ParentIds == {"P", "Q"}

InitList ==
  /\ qState = [j \in WJobs |-> "none"]
  /\ qParent = [j \in WJobs |-> NoParent]
  /\ qAttemptsMade = [j \in WJobs |-> 0]
  /\ listedFor = Undefined
  /\ listed = {}

\* nothing is enqueued or listed
ListParked ==
  /\ qState = [j \in WJobs |-> "removed"]
  /\ qParent = [j \in WJobs |-> NoParent]
  /\ qAttemptsMade = [j \in WJobs |-> 0]
  /\ listedFor = Undefined
  /\ listed = {}

\* the states getJobsByParentId asks the queue for
ListedStates == {"active", "waiting", "failed", "completed"}

\* the result of a call is consumed before the queue changes
ListReturned == listedFor' = Undefined /\ listed' = {}

\* addJob / addBulkJobs with options.parentId, with or without options.delay:
\* q.add puts a job with a delay into the delayed set
QueueAdd(j, parentId, delay) ==
  /\ qState[j] = "none"
  /\ qState' = [qState EXCEPT ![j] = IF delay THEN "delayed" ELSE "waiting"]
  /\ qParent' = [qParent EXCEPT ![j] = parentId]
  /\ ListReturned
  /\ UNCHANGED qAttemptsMade
  /\ UNCHANGED nonListVars

\* the delay of a delayed job is over: the queue moves it to wait
QueuePromote(j) ==
  /\ qState[j] = "delayed"
  /\ qState' = [qState EXCEPT ![j] = "waiting"]
  /\ ListReturned
  /\ UNCHANGED <<qParent, qAttemptsMade>>
  /\ UNCHANGED nonListVars

\* a Worker takes the job
QueueActivate(j) ==
  /\ qState[j] = "waiting"
  /\ qState' = [qState EXCEPT ![j] = "active"]
  /\ qAttemptsMade' = [qAttemptsMade EXCEPT ![j] = @ + 1]
  /\ ListReturned
  /\ UNCHANGED qParent
  /\ UNCHANGED nonListVars

\* the attempt ends: completed; or it threw and, with attempts left, the job
\* waits out its backoff (defaultJobOptions.backoff) in the delayed set, else failed
QueueAttemptEnds(j) ==
  /\ qState[j] = "active"
  /\ \E ok \in BOOLEAN :
       qState' = [qState EXCEPT ![j] =
                    IF ok THEN "completed"
                    ELSE IF qAttemptsMade[j] < MaxAttemptsOpt THEN "delayed" ELSE "failed"]
  /\ ListReturned
  /\ UNCHANGED <<qParent, qAttemptsMade>>
  /\ UNCHANGED nonListVars

\* removeOnComplete / removeOnFail: the queue drops a finished job
QueueRemove(j) ==
  /\ qState[j] \in {"completed", "failed"}
  /\ qState' = [qState EXCEPT ![j] = "removed"]
  /\ ListReturned
  /\ UNCHANGED <<qParent, qAttemptsMade>>
  /\ UNCHANGED nonListVars

\* getJobsByParentId(jobType, userId, parentId)
GetJobsByParentId(parentId) ==
  /\ listedFor = Undefined
  /\ listedFor' = parentId
  /\ listed' = {j \in WJobs : qState[j] \in ListedStates /\ qParent[j] = parentId}
  /\ UNCHANGED <<qState, qParent, qAttemptsMade>>
  /\ UNCHANGED nonListVars

NextList ==
  \/ \E j \in WJobs, parentId \in ParentIds, delay \in BOOLEAN : QueueAdd(j, parentId, delay)
  \/ \E j \in WJobs : QueuePromote(j)
  \/ \E j \in WJobs : QueueActivate(j)
  \/ \E j \in WJobs : QueueAttemptEnds(j)
  \/ \E j \in WJobs : QueueRemove(j)
  \/ \E parentId \in ParentIds : GetJobsByParentId(parentId)

(***************************************************************************)
(* Specifications.                                                         *)
(***************************************************************************)
\* authentication runs; worker pools and sockets at rest
InitSpecAuth == InitAuth /\ WorkerParked /\ SocketParked /\ PlanParked /\ ExecParked /\ ShutParked /\ ImageParked /\ ListParked

SpecAuth == InitSpecAuth /\ [][NextAuth]_vars

\* worker pools run; authentication and sockets at rest
InitSpecWorker == InitWorker /\ AuthParked /\ SocketParked /\ PlanParked /\ ExecParked /\ ShutParked /\ ImageParked /\ ListParked

SpecWorker == InitSpecWorker /\ [][NextWorker]_vars

\* the socket fan-out runs; authentication and worker pools at rest
InitSpecSocket == InitSocket /\ AuthParked /\ WorkerParked /\ PlanParked /\ ExecParked /\ ShutParked /\ ImageParked /\ ListParked

SpecSocket == InitSpecSocket /\ [][NextSocket]_vars

\* the same, with the event loop running every handler, timer and queue step
\* that stays ready
SpecSocketLive == InitSpecSocket /\ [][NextSocket]_vars /\ WF_vars(NextSocket)

\* the engagement strategies: one call of simulate() on one strategy
InitSpecPlan == InitPlan /\ AuthParked /\ WorkerParked /\ SocketParked /\ ExecParked /\ ShutParked /\ ImageParked /\ ListParked
SpecPlan == InitSpecPlan /\ [][NextPlan]_vars

\* the log of one running job
InitSpecLogs == InitLogs /\ AuthParked /\ PlanParked /\ ExecParked /\ ShutParked /\ ImageParked /\ ListParked
SpecLogs == InitSpecLogs /\ [][NextLogs]_vars

\* graceful shutdown: the event loop runs each call of gracefulShutdown and
\* each job in flight whenever its next step stays ready; signals and new
\* jobs need not come
InitSpecShut == InitShut /\ AuthParked /\ WorkerParked /\ SocketParked /\ PlanParked /\ ExecParked /\ ImageParked /\ ListParked
SpecShut ==
  /\ InitSpecShut
  /\ [][NextShut]_vars
  /\ \A r \in Signals : WF_vars(GracefulShutdown(r))
  /\ \A w \in SdWorkers : WF_vars(JobFinishes(w))

\* the image of one post of a mass post job
InitSpecImage ==
  InitImage /\ AuthParked /\ WorkerParked /\ SocketParked /\ PlanParked /\ ExecParked /\ ShutParked
            /\ ListParked
SpecImage == InitSpecImage /\ [][NextImage]_vars

\* the socket service with the history of the unmonitor-job requests: the
\* subscriptions and every source of events, without the two requests that
\* are answered to the asking socket alone
NextWatch ==
  \/ \E s \in Sockets :
       \/ \E t \in Tenants : Connect(s, t)
       \/ Disconnect(s)
       \/ \E j \in SJobs :
            \/ MonitorJob(s, j)
            \/ UnmonitorJob(s, j)
       \/ \E g \in Groups : MonitorJobGroup(s, g)
  \/ \E j \in SJobs :
       \/ SJAdd(j)
       \/ SJStart(j)
       \/ SJProgress(j)
       \/ SJLog(j)
       \/ SJComplete(j)
       \/ SJFail(j)
       \/ SJStall(j)
  \/ StreamDeliver

InitSpecWatch ==
  InitWatch /\ AuthParked /\ WorkerParked /\ PlanParked /\ ExecParked /\ ShutParked
            /\ ImageParked /\ ListParked
SpecWatch == InitSpecWatch /\ [][NextWatch]_vars

\* the jobs of one queue and the listing by parent
InitSpecList ==
  InitList /\ AuthParked /\ WorkerParked /\ SocketParked /\ PlanParked /\ ExecParked /\ ShutParked
           /\ ImageParked
SpecList == InitSpecList /\ [][NextList]_vars

\* the processors: one attempt of one engagement or mass post job
InitSpecExec == InitExec /\ AuthParked /\ WorkerParked /\ SocketParked /\ PlanParked /\ ShutParked /\ ImageParked /\ ListParked
SpecExec == InitSpecExec /\ [][NextExec]_vars

(***************************************************************************)
(* Authentication: properties.                                             *)
(***************************************************************************)
\* no job is inside a coordination
AuthQuiet == \A j \in AJobs : aPc[j] \in {"idle", "exec", "jobfail", "done"}

\* C3: after a successful authentication of a job of the account, the account
\* store holds the token pair most recently returned by the social client,
\* also when several jobs of the account authenticate concurrently.  (Stated
\* for the runs in which every write to the store succeeded and every job
\* that was given tokens carries the accountId.)
C3_StoreHoldsLatestPair ==
  ( /\ AuthQuiet
    /\ ~storeFailed
    /\ \E j \in AJobs : authDone[j] # NoToken
    /\ \A j \in AJobs : authDone[j] # NoToken => HasAccountId(j) )
  => /\ accountStore.jwt = issued
     /\ accountStore.refresh_jwt = issued

\* C7: once every auth method has failed for a job, the job fails for good and
\* authentication is not attempted again for it: the job is failing or failed.
C7_AuthExhaustedIsTerminal ==
  \A j \in AJobs :
    exhausted[j] => /\ aPc[j] \in {"threw", "jobfail", "done"}
                    /\ aJobState[j] \in {"active", "failed"}

\* C8: no hard-coded DID is ever written into the session, passed to the
\* social client or written to the account store.
C8_NoFabricatedDid ==
  /\ \A j \in AJobs : sessionData[j].did # KnownDid
  /\ KnownDid \notin clientDids
  /\ accountStore.did # KnownDid

\* C9: the error raised when authentication fails carries the error of the
\* last method that failed, never the 'unknown error' placeholder.
C9_ErrorCarriesLastCause ==
  \A j \in AJobs :
    thrown[j].kind # "none" =>
      /\ thrown[j].cause = lastCause[j]
      /\ thrown[j].cause # ResumeErrorMessage(NoError)

MethodRank(m) == CASE m = "refresh" -> 1 [] m = "resume" -> 2 [] m = "login" -> 3

\* C10: the methods of one coordination are attempted in the order refresh,
\* resume, login; nothing is attempted after a method that succeeded; refresh
\* is attempted only with a refresh token and login only with a password.
C10_OrderAndFirstSuccessWins ==
  \A j \in AJobs :
    LET a == attempted[j] IN
    /\ \A i \in 1..(Len(a) - 1) :
         /\ MethodRank(a[i].m) < MethodRank(a[i + 1].m)
         /\ ~a[i].ok
    /\ \A i \in 1..Len(a) : a[i].pre

\* C10 witness: refresh and resume failed, login succeeded, the coordination returned.
C10_Witness ==
  \E j \in AJobs :
    /\ aPc[j] = "exec"
    /\ Len(attempted[j]) = 3
    /\ attempted[j][1].m = "refresh" /\ ~attempted[j][1].ok
    /\ attempted[j][2].m = "resume" /\ ~attempted[j][2].ok
    /\ attempted[j][3].m = "login" /\ attempted[j][3].ok

(***************************************************************************)
(* Worker pools and console capture: properties.                           *)
(***************************************************************************)
\* C2: a console write made by the executor of a job is appended only to the
\* log of that job, never to the log of another job running in the process.
C2_ConsoleCaptureIsJobLocal ==
  \A j \in WJobs :
    \A i \in 1..Len(jobLogs[j]) :
      jobLogs[j][i].kind = "console" => jobLogs[j][i].writer = j

\* C5: at no time do two Workers of the same queue run jobs at once: the
\* Worker that replaces another claims nothing before the old one has
\* finished its jobs.
C5_OnePoolPerQueueAtATime ==
  \A w1, w2 \in 1..MaxWorkers :
    ( /\ w1 # w2
      /\ workers[w1].state # "unused"
      /\ workers[w2].state # "unused"
      /\ workers[w1].queue = workers[w2].queue )
    => ~(ActiveJobsOf(w1) # {} /\ ActiveJobsOf(w2) # {})

\* C39: whenever the registry holds a queue it holds a Worker for it, after
\* getQueue or addJob has returned and after either has thrown; so no job
\* waits in a queue that has no Worker to claim it.
C39_EveryQueueHasAWorker ==
  /\ \A q \in queueMap : workerMap[q] # NoWorker
  /\ \A j \in WJobs : wState[j] = "waiting" => workerMap[jobQueue[j]] # NoWorker

\* C33: whenever no job runs in the process the console functions are the
\* original ones: no job's capturing wrapper stays installed.
C33_ConsoleRestoredWhenIdle ==
  (\A j \in WJobs : wPc[j] = "idle") => consoleFn = <<>>

(***************************************************************************)
(* Socket fan-out: properties.                                             *)
(***************************************************************************)
\* C1: a subscriber of the job's tenant that monitors some job is sent a
\* job:progress event only of a job it watches (by monitor-job or through the
\* job's group): having called monitor-job(J1) only, it is never sent a
\* job:progress of J2.
C1_NoProgressOfUnwatchedJob ==
  \A e \in emitted :
    ( /\ e.name = "job:progress"
      /\ sockTenant[e.socket] = SJobTenant(e.jobId)
      /\ clientSubscriptions[e.socket].activeJobs # {} )
      => Watches(e.socket, e.jobId)

\* the transitions of the projection that follow waiting -> active -> {completed, failed}
ProjectionSteps ==
  {<<"none", "pending">>, <<"pending", "running">>,
   <<"running", "completed">>, <<"running", "failed">>}

\* C4: the projection of a job held for subscribers changes only along
\* pending -> running -> {completed, failed}; a job recorded completed or
\* failed never goes back to running.
C4_ProjectionFollowsLifecycle ==
  [][\A j \in SJobs :
       jobStateCache[j].status # jobStateCache'[j].status
         => <<jobStateCache[j].status, jobStateCache'[j].status>> \in ProjectionSteps]_vars

\* C6: whatever a socket is sent (events, cached state, cached logs) is of a
\* job of the tenant the socket connected as.
C6_NothingOfAnotherTenant ==
  \A e \in emitted : sockTenant[e.socket] = SJobTenant(e.jobId)

\* C11: the events of one job reach a subscriber watching it in the order they
\* were produced: a job:progress of an attempt is not sent to a subscriber that
\* has already been sent that attempt's job:failed or job:completed.
C11_NoProgressAfterAttemptEnd ==
  [][(stream # <<>> /\ stream' = Tail(stream) /\ Head(stream).name = "job:progress")
       => \A s \in Sockets :
            ( /\ Watches(s, Head(stream).jobId)
              /\ Sent("job:progress", Head(stream).jobId, s) \in emitted' )
              => seenEnd[s][Head(stream).jobId] < Head(stream).attempt]_vars

\* C12: a subscriber that starts monitoring a job that has already produced
\* events is sent the job's last-known state together with its recent log
\* entries: whenever monitor-job answers with job:state for a job with cached
\* logs, the logs are sent as well.
C12_LateSubscriberGetsStateAndLogs ==
  \A e \in emitted :
    ( /\ e.name = "job:state"
      /\ e.jobId \in clientSubscriptions[e.socket].activeJobs
      /\ jobLogsCache[e.jobId] # <<>> )
      => \E l \in emitted :
           l.socket = e.socket /\ l.jobId = e.jobId /\ l.name \in {"reply:logs", "job:log"}

\* C13: every event of the observation stream of a queue carries the user id
\* of the queue's owner on every path by which it reaches emitJobEvent.
C13_StreamEventsCarryOwner ==
  \A i \in 1..Len(stream) :
    LET paths == QueueEventPaths(stream[i].jobId, Undefined, 0) IN
    \A k \in 1..Len(paths) : paths[k].userId = SJobTenant(stream[i].jobId)

(***************************************************************************)
(* Engagement strategies: properties.                                      *)
(***************************************************************************)
\* C16: the plan a strategy returns has exactly numberOfActions actions,
\* floor(numberOfActions * likePercentage / 100) of them likes and the rest
\* reposts, and the counts it reports are the counts of the plan.
C16_PlanHasTheReportedCounts ==
  planPc = "done" =>
    /\ planCounts.len = numberOfActions
    /\ planCounts.likes = FloorPct(numberOfActions, likePercentage)
    /\ planCounts.reposts = numberOfActions - FloorPct(numberOfActions, likePercentage)
    /\ likeCount = planCounts.likes
    /\ repostCount = planCounts.reposts

C18_LongPauseBeforeLaterSessions ==
  ( /\ strategyType = "human-like"
    /\ lastPlanned.first
    /\ lastPlanned.session > 0 )
    => WaitBefore(lastPlanned) \in delayRange[2]..(3 * delayRange[2])

C19_OneRecordPerPlannedAction ==
  (jobKind = "engagementBot" /\ execPc = "done")
    => SuccessCount(results) + ErrorCount(results) = Len(items)

\* C20: after every iteration of the plan loop the executor has invoked the
\* progress callback exactly once, with that iteration's index: after i
\* iterations the callback has been invoked with 0, 1, ..., i - 1.
C20_CallbackOncePerIteration ==
  (jobKind = "engagementBot" /\ execPc \in {"loop", "done"})
    => callbacks = [k \in 1..execI |-> k - 1]

\* C36: in a mass post job every post created upstream has a success record
\* and successCount is the number of posts created: a failure after the
\* creation (the profile update of the pin) does not make a failure record.
C36_CreatedPostsAreSuccessRecords ==
  jobKind = "massPost" =>
    /\ \A k \in 1..Len(results) : PostsToProcess[k] \in {"ok", "pinThrows"} => results[k]
    /\ SuccessCount(results) =
         Cardinality({k \in 1..Len(results) : PostsToProcess[k] \in {"ok", "pinThrows"}})

C22_AtMostOnePinnedRecord ==
  (jobKind = "massPost" /\ execPc = "done")
    => Cardinality({k \in 1..Len(resultPinned) : resultPinned[k]}) <= 1

\* C23: for a batch with at most one pin = true there is at most one record
\* with pinned = true, and it is the record of the first post with pin = true
\* that succeeded, in iteration order.
C23_PinnedRecordIsTheFirstPinPost ==
  ( /\ jobKind = "massPost"
    /\ execPc \in {"loop", "done"}
    /\ Cardinality({k \in 1..Len(pinFlags) : pinFlags[k]}) <= 1 )
    => LET pinnedRecords == {k \in 1..Len(resultPinned) : resultPinned[k]} IN
       /\ Cardinality(pinnedRecords) <= 1
       /\ \A k \in pinnedRecords :
            /\ PinsToProcess[k]
            /\ results[k]
            /\ \A m \in 1..(k - 1) : ~(PinsToProcess[m] /\ results[m])

\* a reversed batch of three posts, the first given with pin = true, has
\* completed with the record of that post, the last one, pinned
C23_Witness ==
  /\ jobKind = "massPost"
  /\ execPc = "done"
  /\ reverseOrder
  /\ Len(items) = 3
  /\ pinFlags = <<TRUE, FALSE, FALSE>>
  /\ resultPinned = <<FALSE, FALSE, TRUE>>

\* C24: between two consecutive posts the processor sleeps a time from
\* [delayRange[0], delayRange[1]], whether the earlier post succeeded or
\* failed, and it does not sleep after the last post.
C24_PauseBetweenConsecutivePosts ==
  (jobKind = "massPost" /\ execPc \in {"loop", "done"} /\ ~sleeping /\ execI >= 1)
    => IF execI < Len(items)
         THEN lastSleep \in PostDelayRange[1]..PostDelayRange[2]
         ELSE lastSleep = 0

\* C28: a shutdown that begins while an executor sleeps (or before its next
\* sleep) ends the sleep with the executor returning: it performs no further
\* action and does not go on with its loop.
C28_CancelledSleepReturns ==
  [][(shuttingDown /\ sleeping) => (results' = results /\ execPc' # "loop")]_vars

C26_TerminalEntriesAreEvicted ==
  \A j \in SJobs :
    [](sjState[j] \in {"completed", "failed"}
         => <>(jobStateCache[j] = NoState /\ jobLogsCache[j] = <<>>))

\* C27: wherever the log of a job is kept it never holds more than
\* MAX_CACHED_LOGS entries, and once more have been written it holds exactly
\* the MAX_CACHED_LOGS most recent ones, in order.
C27_RetainedLogsAreTheLastN ==
  \A j \in WJobs :
    LET written == [k \in 1..Len(jobLogs[j]) |-> LogEntry(j, k)] IN
    /\ Len(jobLogs[j]) <= MAX_CACHED_LOGS
    /\ Len(jobLogsCache[j]) <= MAX_CACHED_LOGS
    /\ Len(written) > MAX_CACHED_LOGS
         => jobLogsCache[j] = LastN(written, MAX_CACHED_LOGS)

\* C34: once the cached state of a job records failed or completed for an
\* attempt, a job:progress of that attempt handled later does not set the
\* cached status back to running.
C34_LateProgressKeepsTerminalStatus ==
  [][\A j \in SJobs :
       ( /\ stream # <<>>
         /\ stream' = Tail(stream)
         /\ Head(stream) = [name |-> "job:progress", jobId |-> j, attempt |-> sjAttempts[j]]
         /\ sjState[j] # "active"
         /\ jobStateCache[j] # NoState
         /\ jobStateCache[j].status \in {"failed", "completed"} )
       => jobStateCache'[j].status # "running"]_vars

\* C32: an event produced once is sent to a subscriber at most once, whatever
\* rooms the subscriber is in and whichever way the event reaches emitJobEvent.
C32_EachEventDeliveredAtMostOnce ==
  \A e \in resent : e.name \notin {"job:progress", "job:completed", "job:failed", "job:log"}

\* C38: a socket that has sent unmonitor-job for a job is sent no job:log of
\* that job until it monitors the job again; the subscription record of a
\* socket that has disconnected is removed, and nothing is sent to it.
C38_NoLogAfterUnmonitorNothingAfterDisconnect ==
  \A s \in Sockets :
    /\ \A j \in SJobs : unmonitored[s][j] > 0 => Sent("job:log", j, s) \notin emitted
    /\ sockTenant[s] = NotConnected =>
         /\ clientSubscriptions[s] = NoSubscription
         /\ \A e \in emitted : e.socket # s

\* C38, witness: the socket has unmonitored job 1, a log line of job 1 has been
\* handled since and was not sent to it
C38_Witness ==
  /\ unmonitored[1][1] = 2
  /\ sjState[1] = "active"
  /\ Len(jobLogsCache[1]) >= 4
  /\ emitted = {}

(***************************************************************************)
(* Graceful shutdown: properties.                                          *)
(***************************************************************************)
\* C29: once shutdown has begun no pool claims new work, the Workers are
\* closed before the queues and before the shared Redis connection, and the
\* shutdown always ends with the process exiting, even if a job in flight
\* never finishes or a second signal arrives.
C29_ShutdownStopsClaimsAndTerminates ==
  /\ [][sdPc[1] # "idle" =>
          \A w \in SdWorkers : sdJobs[w] = "none" => sdJobs'[w] = "none"]_vars
  /\ []((sdQueuesClosed \/ sdRedisClosed) => \A w \in SdWorkers : sdWorkers[w] = "closed")
  /\ (sdPc[1] # "idle") ~> (exitCode # Running)

(***************************************************************************)
(* Images: properties.                                                     *)
(***************************************************************************)
\* C31: every blob given to uploadBlob is at most 900 KiB: a payload above
\* the cap is downscaled to fit first, and one still above it is not uploaded.
C31_UploadedBlobsFitTheCap ==
  \A k \in 1..Len(uploaded) : uploaded[k] <= MAX_IMAGE_SIZE

(***************************************************************************)
(* Job logs: properties.                                                   *)
(***************************************************************************)
\* C15: the log of a job only grows by appending while the job is not
\* terminal, and does not change at all once the job is completed or failed.
C15_LogsAppendOnlyThenFrozen ==
  [][\A j \in WJobs :
       /\ Len(jobLogs[j]) <= Len(jobLogs'[j])
       /\ SubSeq(jobLogs'[j], 1, Len(jobLogs[j])) = jobLogs[j]
       /\ wState[j] \in {"completed", "failed"} => jobLogs'[j] = jobLogs[j]]_vars

\* C35: the log cache of a job holds one entry per addJobLog call, in call
\* order and with no duplicates (as long as no entry has been dropped for the
\* limit of MAX_CACHED_LOGS entries).
C35_LogCacheHoldsEachLineOnce ==
  \A j \in WJobs :
    Len(jobLogs[j]) <= MAX_CACHED_LOGS => jobLogsCache[j] = jobLogs[j]

(***************************************************************************)
(* Listing by parent: properties.                                          *)
(***************************************************************************)
\* C37: listing by parent returns every job enqueued under that parentId that
\* the queue still retains, whatever its state, a job waiting out a delay or
\* a retry backoff included.
C37_ListingReturnsEveryRetainedJob ==
  listedFor # Undefined =>
    listed = {j \in WJobs : qState[j] \notin {"none", "removed"} /\ qParent[j] = listedFor}

====
